---- MODULE Spec2Model ----
(***************************************************************************)
(* Model of the collector registry / fan-out engine (MultiCollector), the  *)
(* lifecycle manager (CollectorManager) and the enablement policy          *)
(* (isMetricEnabled) of the MongoDB exporter, package collector.           *)
(*                                                                         *)
(* These families of behaviours are described:                             *)
(*   Spec / SpecLive  callers (scrapes, administrative calls) that run     *)
(*                    AddCollector, RemoveCollector, Collect, Describe and *)
(*                    Shutdown concurrently on one MultiCollector;         *)
(*   SpecPolicy       direct calls of isMetricEnabled and of the Collect   *)
(*                    method of each built-in collector under every        *)
(*                    configuration of the allow-list and deny-list;       *)
(*   SpecHelpers      direct calls of getInstanceInfo, getNumericValue,    *)
(*                    ServerStatusCollector.collectMetrics and Describe on *)
(*                    enumerated snapshots and values;                     *)
(*   SpecQueries      Collect calls of single collectors against an        *)
(*                    upstream whose queries may fail, and the cycles of   *)
(*                    the ProfileCollector with its watermark;             *)
(*   SpecOverlap      Collect calls of two requests served at once;        *)
(*   SpecShutdown     the fan-out of SpecLive next to Shutdown;            *)
(*   SpecManager      CollectorManager.InitializeCollectors and the        *)
(*                    registries it installs and replaces;                 *)
(*   SpecStats        Collect calls of the StorageStatsCollector and the   *)
(*                    CollStatsCollector over listed databases and         *)
(*                    collections.                                         *)
(***************************************************************************)
EXTENDS Integers, Sequences, FiniteSets, TLC

\* ------------------------------------------------------------------------
\* Bounds
\* ------------------------------------------------------------------------

\* Largest number of collectors the registry is allowed to hold.
MaxCollectors == 2

\* Capacity of the output channel handed to Collect.
ChanCap == 1

\* Longest allow-list / deny-list that is enumerated.
MaxListLen == 2

\* Largest number of upstream queries / observations of one built-in
\* collector call that is distinguished.
MaxQueries == 2

\* Largest magnitude of the small integers and float mantissas that are
\* enumerated.
MaxNum == 3

\* Largest magnitude of the binary exponents of the floats enumerated.
MaxExp == 1

\* Number of descriptors of one collector that are told apart.
MaxDescs == 2

\* Latest reading of the clock.
MaxClock == 3

\* Largest number of profile cycles whose windows are kept.
MaxCycles == 3

\* Largest number of shards config.shards lists.
MaxShards == 1

\* Calls of CollectorManager.InitializeCollectors in a behaviour.
MaxInits == 2

\* Values of the mock status snapshot of the tests: uptime, mem.resident.
MockUptime == 3600
MockResident == 104857600

\* time.Hour, in ticks of the clock.
Hour == 1

\* ------------------------------------------------------------------------
\* Universe
\* ------------------------------------------------------------------------

\* Callers: goroutines of the exposition layer or of an administrator that
\* invoke the operations of the registry.
Tasks == {"t1", "t2"}

\* The task of the exposition layer, which scrapes (Collect, Describe), and
\* the task of the program's main goroutine, which administers the registry
\* (AddCollector, RemoveCollector, Shutdown).
Scrapers == {"t1"}
Admins == {"t2"}

\* Collector objects that can be registered (three distinct instances; two
\* of them report the same Name()).
Coll == {"c1", "c2", "c3"}

\* Collector.Name() of the registrable instances.
Name(c) == CASE c = "c1" -> "a"
             [] c = "c2" -> "a"
             [] c = "c3" -> "b"

\* Size of the full observation set a collector emits when its Collect
\* runs to completion.
NumObs(c) == IF c = "c1" THEN 2 ELSE 1

NoTask == "free"

\* Built-in collectors in the order InitializeCollectors constructs them,
\* each denoted by the string its Name() returns.
InitializeCollectors ==
    << "server_status", "replica_set_status", "query_executor", "wiredtiger",
       "locks", "index_stats", "storage_stats", "compatibility", "sharding",
       "collstats", "cursors", "profile", "connection_pool" >>

Builtin == { InitializeCollectors[i] : i \in 1..Len(InitializeCollectors) }

\* Metric names that may appear in the configured allow-list and deny-list.
MetricNames == {"server_status", "collstats", "collection_stats",
                "specific_metric"}

\* Names isMetricEnabled is asked about: the configurable ones, every
\* built-in collector name and a name no list contains.
QueryNames == MetricNames \cup Builtin \cup {"unknown_metric"}

\* Sequences over S of length at most n.
SeqUpTo(S, n) == UNION { [1..k -> S] : k \in 0..n }

\* Configuration held by the manager of the concurrent registry model.
DefaultConfig == [ EnabledMetrics |-> << >>, DisabledMetrics |-> << >> ]

VARIABLES
    collectors,   \* mc.collectors: the registry's collector list
    mu,           \* mc.mu: NoTask, or the task holding the lock
    cancelled,    \* cm.ctx has been cancelled by cm.cancel()
    crashed,      \* a panic escaped a goroutine and ended the process
    pc,           \* per task: position inside the operation it runs
    arg,          \* per task: argument of the running Add/RemoveCollector
    snap,         \* per task: local slice `collectors` of Collect; after
                  \* Add/RemoveCollector, the list the call left behind
    idx,          \* per task: loop index (spawn loop, Describe loop)
    gor,          \* per task: the goroutines started by its Collect call
    wg,           \* per task: counter of the call's sync.WaitGroup
    errors,       \* per task: local slice `errors` of Collect
    logged,       \* per task: "Collector panicked" log lines of the call
    summary,      \* per task: error_count of the summary log line, or -1
    chLen,        \* per task: observations buffered in the channel `ch`
    regAtCall,    \* per task: mc.collectors when its call took the lock
    callCtxDone,  \* per task: cm.ctx was already cancelled at call entry
    view,         \* per task: slice header Describe ranges over
    raced,        \* per task: the list was written during its Describe
    descs,        \* per task: collectors whose Describe has been called
    config,       \* CollectorConfig shared by manager and collectors
    lastCheck,    \* ProfileCollector.lastCheck, the profile watermark
    clock,        \* the wall clock read by time.Now()
    windows,      \* (since, until) of every profile cycle that got past
                  \* the database listing, oldest first
    retired,      \* the lists of the MultiCollector objects the manager
                  \* has replaced, oldest first
    last          \* outcome of the last direct call (policy behaviours)

regVars  == << collectors, mu, cancelled, crashed >>
callVars == << snap, idx, gor, wg, errors, logged, summary, regAtCall,
               callCtxDone >>
descVars == << view, raced, descs >>
profVars == << lastCheck, clock, windows >>
vars == << collectors, mu, cancelled, crashed, pc, arg, snap, idx, gor, wg,
           errors, logged, summary, chLen, regAtCall, callCtxDone,
           view, raced, descs, config, lastCheck, clock, windows, retired,
           last >>

\* ------------------------------------------------------------------------
\* Enablement policy
\* ------------------------------------------------------------------------

\* `for _, x := range list { if x == metricName { ... } }`
InList(list, metricName) == \E i \in 1..Len(list) : list[i] = metricName

\* Variant of isMetricEnabled that consults the allow-list before the
\* deny-list.
isMetricEnabled_AllowFirst(cfg, metricName) ==
    IF InList(cfg.EnabledMetrics, metricName) THEN TRUE
    ELSE IF InList(cfg.DisabledMetrics, metricName) THEN FALSE
    ELSE Len(cfg.EnabledMetrics) = 0

\* Variant of isMetricEnabled that never consults the allow-list.
isMetricEnabled_IgnoreAllow(cfg, metricName) ==
    ~InList(cfg.DisabledMetrics, metricName)

\* BaseCollector.isMetricEnabled
isMetricEnabled(cfg, metricName) ==
    IF InList(cfg.DisabledMetrics, metricName) THEN FALSE
    ELSE IF Len(cfg.EnabledMetrics) = 0 THEN TRUE
    ELSE IF InList(cfg.EnabledMetrics, metricName) THEN TRUE
    ELSE FALSE

\* CollectorManager.isMetricEnabled
cmIsMetricEnabled(cfg, metricName) ==
    IF InList(cfg.DisabledMetrics, metricName) THEN FALSE
    ELSE IF Len(cfg.EnabledMetrics) = 0 THEN TRUE
    ELSE IF InList(cfg.EnabledMetrics, metricName) THEN TRUE
    ELSE FALSE

\* ------------------------------------------------------------------------
\* Initial states
\* ------------------------------------------------------------------------

\* A goroutine started by Collect for collector c.
NewGoroutine(c) == [ c |-> c, st |-> "run", emitted |-> 0, panicked |-> FALSE ]

\* Local state of a task that runs no operation.
TaskInit ==
    /\ pc = [t \in Tasks |-> "idle"]
    /\ arg = [t \in Tasks |-> "none"]
    /\ snap = [t \in Tasks |-> << >>]
    /\ idx = [t \in Tasks |-> 0]
    /\ gor = [t \in Tasks |-> << >>]
    /\ wg = [t \in Tasks |-> 0]
    /\ errors = [t \in Tasks |-> << >>]
    /\ logged = [t \in Tasks |-> 0]
    /\ summary = [t \in Tasks |-> -1]
    /\ chLen = [t \in Tasks |-> 0]
    /\ regAtCall = [t \in Tasks |-> << >>]
    /\ callCtxDone = [t \in Tasks |-> FALSE]
    /\ view = [t \in Tasks |-> << >>]
    /\ raced = [t \in Tasks |-> FALSE]
    /\ descs = [t \in Tasks |-> << >>]

\* Outcome of a direct call: the method, its argument or receiver, the
\* boolean it returned, and the upstream queries issued and observations
\* emitted by a Collect.
Call(op, name, result, queries, emitted) ==
    [ op |-> op, name |-> name, result |-> result, queries |-> queries,
      emitted |-> emitted ]

NoCall == Call("none", "none", FALSE, 0, 0)

\* NewProfileCollector: lastCheck is one hour before the time of
\* construction; no profile cycle has run.
ProfInit ==
    /\ clock = Hour
    /\ lastCheck = clock - Hour
    /\ windows = << >>

\* NewCollectorManager: an empty MultiCollector (NewMultiCollector), an
\* unlocked mutex and a live context.
Init ==
    /\ collectors = << >>
    /\ mu = NoTask
    /\ cancelled = FALSE
    /\ crashed = FALSE
    /\ config = DefaultConfig
    /\ last = NoCall
    /\ ProfInit
    /\ retired = << >>
    /\ TaskInit

\* ------------------------------------------------------------------------
\* MultiCollector.AddCollector
\* ------------------------------------------------------------------------

\* Every Describe loop in progress has had the list written under it.
MarkRaced ==
    LET \* A task that is in the middle of Describe's range loop.
        Describing(t) == pc[t] = "describe"
    IN  [ u \in Tasks |-> raced[u] \/ Describing(u) ]

\* The collector instances a list holds.
Range(list) == { list[i] : i \in 1..Len(list) }

\* mc.mu.Lock() of AddCollector(c).  Callers register an instance at most
\* once (InitializeCollectors constructs each collector once).
AddLock(t, c) ==
    /\ pc[t] = "idle"
    /\ ~crashed
    /\ mu = NoTask
    /\ Len(collectors) < MaxCollectors
    /\ c \notin Range(collectors)
    /\ mu' = t
    /\ pc' = [pc EXCEPT ![t] = "add"]
    /\ arg' = [arg EXCEPT ![t] = c]
    /\ regAtCall' = [regAtCall EXCEPT ![t] = collectors]
    /\ UNCHANGED << collectors, cancelled, crashed, snap, idx, gor, wg,
                    errors, logged, summary, callCtxDone, chLen, descVars,
                    config, profVars, retired, last >>

\* mc.collectors = append(mc.collectors, collector); deferred Unlock.
AddCollector(t) ==
    /\ pc[t] = "add"
    /\ collectors' = Append(collectors, arg[t])
    /\ raced' = MarkRaced
    /\ snap' = [snap EXCEPT ![t] = collectors']
    /\ mu' = NoTask
    /\ pc' = [pc EXCEPT ![t] = "add_ret"]
    /\ UNCHANGED << cancelled, crashed, arg, idx, gor, wg, errors, logged,
                    summary, regAtCall, callCtxDone, chLen, view, descs,
                    config, profVars, retired, last >>

\* ------------------------------------------------------------------------
\* MultiCollector.RemoveCollector
\* ------------------------------------------------------------------------

\* Variant of the loop that drops the last collector when no name matches.
RECURSIVE RemoveLoop_DropLast(_, _, _)
RemoveLoop_DropLast(list, name, i) ==
    IF i > Len(list) THEN SubSeq(list, 1, Len(list) - 1)
    ELSE IF Name(list[i]) = name
         THEN SubSeq(list, 1, i - 1) \o SubSeq(list, i + 1, Len(list))
         ELSE RemoveLoop_DropLast(list, name, i + 1)

\* Variant of the loop that goes on after the first match and removes every
\* collector of that name.
RECURSIVE RemoveLoop_RemoveAll(_, _, _)
RemoveLoop_RemoveAll(list, name, i) ==
    IF i > Len(list) THEN list
    ELSE IF Name(list[i]) = name
         THEN RemoveLoop_RemoveAll(
                  SubSeq(list, 1, i - 1) \o SubSeq(list, i + 1, Len(list)),
                  name, i)
         ELSE RemoveLoop_RemoveAll(list, name, i + 1)

\* The loop of RemoveCollector from index i on: the list without the first
\* collector at or after i whose Name() equals name (the list itself when
\* there is none).
RECURSIVE RemoveLoop(_, _, _)
RemoveLoop(list, name, i) ==
    IF i > Len(list) THEN list
    ELSE IF Name(list[i]) = name
         THEN SubSeq(list, 1, i - 1) \o SubSeq(list, i + 1, Len(list))
         ELSE RemoveLoop(list, name, i + 1)

\* mc.mu.Lock() of RemoveCollector(name).
RemoveLock(t, name) ==
    /\ pc[t] = "idle"
    /\ ~crashed
    /\ mu = NoTask
    /\ mu' = t
    /\ pc' = [pc EXCEPT ![t] = "remove"]
    /\ arg' = [arg EXCEPT ![t] = name]
    /\ regAtCall' = [regAtCall EXCEPT ![t] = collectors]
    /\ UNCHANGED << collectors, cancelled, crashed, snap, idx, gor, wg,
                    errors, logged, summary, callCtxDone, chLen, descVars,
                    config, profVars, retired, last >>

\* The loop over mc.collectors and the deferred Unlock.
RemoveCollector(t) ==
    /\ pc[t] = "remove"
    /\ collectors' = RemoveLoop(collectors, arg[t], 1)
    /\ raced' = IF collectors' # collectors THEN MarkRaced ELSE raced
    /\ snap' = [snap EXCEPT ![t] = collectors']
    /\ mu' = NoTask
    /\ pc' = [pc EXCEPT ![t] = "remove_ret"]
    /\ UNCHANGED << cancelled, crashed, arg, idx, gor, wg, errors, logged,
                    summary, regAtCall, callCtxDone, chLen, view, descs,
                    config, profVars, retired, last >>

\* ------------------------------------------------------------------------
\* MultiCollector.Collect
\* ------------------------------------------------------------------------

\* Entry of Collect(ch) and mc.mu.Lock().  The lifecycle context is not
\* consulted anywhere in Collect.
CollectLock(t) ==
    /\ pc[t] = "idle"
    /\ ~crashed
    /\ mu = NoTask
    /\ mu' = t
    /\ pc' = [pc EXCEPT ![t] = "collect_copy"]
    /\ regAtCall' = [regAtCall EXCEPT ![t] = collectors]
    /\ callCtxDone' = [callCtxDone EXCEPT ![t] = cancelled]
    /\ UNCHANGED << collectors, cancelled, crashed, arg, snap, idx, gor, wg,
                    errors, logged, summary, chLen, descVars, config,
                    profVars, retired, last >>

\* collectors := make(...); copy(collectors, mc.collectors); mc.mu.Unlock().
CollectCopy(t) ==
    /\ pc[t] = "collect_copy"
    /\ snap' = [snap EXCEPT ![t] = collectors]
    /\ idx' = [idx EXCEPT ![t] = 1]
    /\ mu' = NoTask
    /\ pc' = [pc EXCEPT ![t] = "collect_spawn"]
    /\ UNCHANGED << collectors, cancelled, crashed, arg, gor, wg, errors,
                    logged, summary, chLen, regAtCall, callCtxDone, descVars,
                    config, profVars, retired, last >>

\* Variant: the loop ranges over mc.collectors itself, not over the copy.
CollectSpawn_Registry(t) ==
    /\ pc[t] = "collect_spawn"
    /\ ~crashed
    /\ idx[t] <= Len(snap[t])
    /\ idx[t] <= Len(collectors)
    /\ wg' = [wg EXCEPT ![t] = @ + 1]
    /\ gor' = [gor EXCEPT ![t] = Append(@, NewGoroutine(collectors[idx[t]]))]
    /\ idx' = [idx EXCEPT ![t] = @ + 1]
    /\ UNCHANGED << regVars, pc, arg, snap, errors, logged, summary, chLen,
                    regAtCall, callCtxDone, descVars, config, profVars,
                    retired, last >>

\* One iteration of `for _, collector := range collectors`:
\* wg.Add(1) and `go func(c Collector) {...}(collector)`.
CollectSpawn(t) ==
    /\ pc[t] = "collect_spawn"
    /\ ~crashed
    /\ idx[t] <= Len(snap[t])
    /\ wg' = [wg EXCEPT ![t] = @ + 1]
    /\ gor' = [gor EXCEPT ![t] = Append(@, NewGoroutine(snap[t][idx[t]]))]
    /\ idx' = [idx EXCEPT ![t] = @ + 1]
    /\ UNCHANGED << regVars, pc, arg, snap, errors, logged, summary, chLen,
                    regAtCall, callCtxDone, descVars, config, profVars,
                    retired, last >>

\* The goroutines of task t's call that are inside c.Collect(ch).
Running(t) == { k \in 1..Len(gor[t]) : gor[t][k].st = "run" }

\* c.Collect(ch) sends its next observation; the send blocks while the
\* channel is full.
GoEmit(t, k) ==
    /\ k \in Running(t)
    /\ ~crashed
    /\ gor[t][k].emitted < NumObs(gor[t][k].c)
    /\ chLen[t] < ChanCap
    /\ gor' = [gor EXCEPT ![t][k].emitted = @ + 1]
    /\ chLen' = [chLen EXCEPT ![t] = @ + 1]
    /\ UNCHANGED << regVars, pc, arg, snap, idx, wg, errors, logged, summary,
                    regAtCall, callCtxDone, descVars, config, profVars,
                    retired, last >>

\* c.Collect(ch) returns after its last observation: recover() yields nil
\* and the deferred wg.Done() runs.
GoReturn(t, k) ==
    /\ k \in Running(t)
    /\ ~crashed
    /\ gor[t][k].emitted = NumObs(gor[t][k].c)
    /\ gor' = [gor EXCEPT ![t][k].st = "done"]
    /\ wg' = [wg EXCEPT ![t] = @ - 1]
    /\ UNCHANGED << regVars, pc, arg, snap, idx, errors, logged, summary,
                    chLen, regAtCall, callCtxDone, descVars, config, profVars,
                    retired, last >>

\* Variant without the recover handler: the panic unwinds through the
\* deferred wg.Done() and ends the process.
Recover_Unrecovered(t, k) ==
    /\ errors' = errors
    /\ logged' = logged
    /\ wg' = [wg EXCEPT ![t] = @ - 1]
    /\ crashed' = TRUE

\* Variant in which wg.Done() is not deferred and is skipped by a panic.
Recover_NoDone(t, k) ==
    /\ errors' = [errors EXCEPT ![t] = Append(@, Name(gor[t][k].c))]
    /\ logged' = [logged EXCEPT ![t] = @ + 1]
    /\ wg' = wg
    /\ crashed' = crashed

\* The deferred functions of the goroutine when c.Collect(ch) panicked
\* with a non-nil value: the recover handler appends to `errors` under
\* errorsMu and logs "Collector panicked"; then wg.Done() runs.
Recover(t, k) ==
    /\ errors' = [errors EXCEPT ![t] = Append(@, Name(gor[t][k].c))]
    /\ logged' = [logged EXCEPT ![t] = @ + 1]
    /\ wg' = [wg EXCEPT ![t] = @ - 1]
    /\ crashed' = crashed

\* c.Collect(ch) panics at any point of its run (a runtime fault).
GoPanic(t, k) ==
    /\ k \in Running(t)
    /\ ~crashed
    /\ gor' = [gor EXCEPT ![t][k].st = "done", ![t][k].panicked = TRUE]
    /\ Recover(t, k)
    /\ UNCHANGED << collectors, mu, cancelled, pc, arg, snap, idx, summary,
                    chLen, regAtCall, callCtxDone, descVars, config, profVars,
                    retired, last >>

\* Variant of the end of Collect that does not wait for the goroutines.
CollectWait_NoWait(t) ==
    /\ pc[t] = "collect_spawn"
    /\ ~crashed
    /\ idx[t] > Len(snap[t])
    /\ summary' = [summary EXCEPT ![t] =
                      IF Len(errors[t]) > 0 THEN Len(errors[t]) ELSE -1]
    /\ pc' = [pc EXCEPT ![t] = "collect_ret"]
    /\ UNCHANGED << regVars, arg, snap, idx, gor, wg, errors, logged, chLen,
                    regAtCall, callCtxDone, descVars, config, profVars,
                    retired, last >>

\* wg.Wait() returns once the counter is zero; the summary line is logged
\* when len(errors) > 0; Collect returns.
CollectWait(t) ==
    /\ pc[t] = "collect_spawn"
    /\ ~crashed
    /\ idx[t] > Len(snap[t])
    /\ wg[t] = 0
    /\ summary' = [summary EXCEPT ![t] =
                      IF Len(errors[t]) > 0 THEN Len(errors[t]) ELSE -1]
    /\ pc' = [pc EXCEPT ![t] = "collect_ret"]
    /\ UNCHANGED << regVars, arg, snap, idx, gor, wg, errors, logged, chLen,
                    regAtCall, callCtxDone, descVars, config, profVars,
                    retired, last >>

\* The exposition layer takes one observation out of the channel.
Drain(t) ==
    /\ chLen[t] > 0
    /\ ~crashed
    /\ chLen' = [chLen EXCEPT ![t] = @ - 1]
    /\ UNCHANGED << regVars, pc, arg, callVars, descVars, config, profVars,
                    retired, last >>

\* ------------------------------------------------------------------------
\* MultiCollector.Describe
\* ------------------------------------------------------------------------

\* `range mc.collectors` evaluates the slice once; no lock is taken.
DescribeStart(t) ==
    /\ pc[t] = "idle"
    /\ ~crashed
    /\ view' = [view EXCEPT ![t] = collectors]
    /\ idx' = [idx EXCEPT ![t] = 1]
    /\ pc' = [pc EXCEPT ![t] = "describe"]
    /\ UNCHANGED << regVars, arg, snap, gor, wg, errors, logged, summary,
                    chLen, regAtCall, callCtxDone, raced, descs, config,
                    profVars, retired,
                    last >>

\* One iteration: collector.Describe(ch).
DescribeStep(t) ==
    LET \* What the loop reads at position i: the element the slice held when the
        \* loop began, unless the list was written meanwhile; that read is a data
        \* race and may yield any collector.
        DescribeRead(i) == IF raced[t] THEN Coll ELSE { view[t][i] }
    IN  /\ pc[t] = "describe"
        /\ ~crashed
        /\ idx[t] <= Len(view[t])
        /\ \E c \in DescribeRead(idx[t]) :
              descs' = [descs EXCEPT ![t] = Append(@, c)]
        /\ idx' = [idx EXCEPT ![t] = @ + 1]
        /\ UNCHANGED << regVars, pc, arg, snap, gor, wg, errors, logged, summary,
                        chLen, regAtCall, callCtxDone, view, raced, config,
                        profVars, retired,
                        last >>

\* The loop is over; Describe returns.
DescribeEnd(t) ==
    /\ pc[t] = "describe"
    /\ ~crashed
    /\ idx[t] > Len(view[t])
    /\ pc' = [pc EXCEPT ![t] = "describe_ret"]
    /\ UNCHANGED << regVars, arg, callVars, chLen, descVars, config, profVars,
                    retired, last >>

\* ------------------------------------------------------------------------
\* CollectorManager.Shutdown
\* ------------------------------------------------------------------------

\* Variant: a shutdown that also empties the registry.
Shutdown_DropsRegistry(t) ==
    /\ pc[t] = "idle"
    /\ ~crashed
    /\ cancelled' = TRUE
    /\ collectors' = << >>
    /\ UNCHANGED << mu, crashed, pc, arg, callVars, chLen, descVars, config,
                    profVars, retired, last >>

\* cm.cancel() and a log line; nothing else is touched.
Shutdown(t) ==
    /\ pc[t] = "idle"
    /\ ~crashed
    /\ cancelled' = TRUE
    /\ UNCHANGED << collectors, mu, crashed, pc, arg, callVars, chLen,
                    descVars, config, profVars, retired, last >>

\* ------------------------------------------------------------------------
\* Return to the caller
\* ------------------------------------------------------------------------

\* The finished call returns; its locals go out of scope.  The caller of
\* Collect closes the channel and takes out what is left in it.
Return(t) ==
    LET RetStates == {"add_ret", "remove_ret", "collect_ret", "describe_ret"}
    IN  /\ pc[t] \in RetStates
        /\ pc' = [pc EXCEPT ![t] = "idle"]
        /\ arg' = [arg EXCEPT ![t] = "none"]
        /\ snap' = [snap EXCEPT ![t] = << >>]
        /\ idx' = [idx EXCEPT ![t] = 0]
        /\ gor' = [gor EXCEPT ![t] = << >>]
        /\ wg' = [wg EXCEPT ![t] = 0]
        /\ errors' = [errors EXCEPT ![t] = << >>]
        /\ logged' = [logged EXCEPT ![t] = 0]
        /\ summary' = [summary EXCEPT ![t] = -1]
        /\ regAtCall' = [regAtCall EXCEPT ![t] = << >>]
        /\ callCtxDone' = [callCtxDone EXCEPT ![t] = FALSE]
        /\ view' = [view EXCEPT ![t] = << >>]
        /\ raced' = [raced EXCEPT ![t] = FALSE]
        /\ descs' = [descs EXCEPT ![t] = << >>]
        /\ chLen' = [chLen EXCEPT ![t] = 0]
        /\ UNCHANGED << regVars, config, profVars, retired, last >>

\* ------------------------------------------------------------------------
\* Specification of the concurrent registry
\* ------------------------------------------------------------------------

Next ==
    \/ \E t \in Admins, c \in Coll : AddLock(t, c)
    \/ \E t \in Admins : AddCollector(t)
    \/ \E t \in Admins, n \in {"a", "b", "zz"} : RemoveLock(t, n)
    \/ \E t \in Admins : RemoveCollector(t)
    \/ \E t \in Scrapers : CollectLock(t)
    \/ \E t \in Scrapers : CollectCopy(t)
    \/ \E t \in Scrapers : CollectSpawn(t)
    \/ \E t \in Scrapers, k \in 1..MaxCollectors : GoEmit(t, k)
    \/ \E t \in Scrapers, k \in 1..MaxCollectors : GoReturn(t, k)
    \/ \E t \in Scrapers, k \in 1..MaxCollectors : GoPanic(t, k)
    \/ \E t \in Scrapers : CollectWait(t)
    \/ \E t \in Scrapers : Drain(t)
    \/ \E t \in Scrapers : DescribeStart(t)
    \/ \E t \in Scrapers : DescribeStep(t)
    \/ \E t \in Scrapers : DescribeEnd(t)
    \/ \E t \in Admins : Shutdown(t)
    \/ \E t \in Tasks : Return(t)

Spec == Init /\ [][Next]_vars

\* ------------------------------------------------------------------------
\* Termination of Collect: the fan-out alone, under the scheduler's fairness
\* ------------------------------------------------------------------------

\* A registry that AddCollector calls have filled before scraping starts.
InitLive ==
    LET \* Lists of distinct collector instances of length at most n.
        DistinctLists(n) ==
            { l \in SeqUpTo(Coll, n) : \A i, j \in 1..Len(l) : l[i] = l[j] => i = j }
    IN  /\ collectors \in DistinctLists(MaxCollectors)
        /\ mu = NoTask
        /\ cancelled = FALSE
        /\ crashed = FALSE
        /\ config = DefaultConfig
        /\ last = NoCall
        /\ ProfInit
        /\ retired = << >>
        /\ TaskInit

NextLive ==
    \/ \E t \in Scrapers : CollectLock(t)
    \/ \E t \in Scrapers : CollectCopy(t)
    \/ \E t \in Scrapers : CollectSpawn(t)
    \/ \E t \in Scrapers, k \in 1..MaxCollectors : GoEmit(t, k)
    \/ \E t \in Scrapers, k \in 1..MaxCollectors : GoReturn(t, k)
    \/ \E t \in Scrapers, k \in 1..MaxCollectors : GoPanic(t, k)
    \/ \E t \in Scrapers : CollectWait(t)
    \/ \E t \in Scrapers : Drain(t)
    \/ \E t \in Scrapers : Return(t)

\* The Go scheduler runs every runnable goroutine (weak fairness of the
\* steps of Collect and of a collector that is about to return); a sender
\* blocked on the channel is served in FIFO order once the receiver takes
\* an observation (strong fairness of the send); the exposition layer keeps
\* draining the channel.  A panic is possible at any time but never owed.
Fairness ==
    /\ \A t \in Scrapers :
          /\ WF_vars(CollectCopy(t))
          /\ WF_vars(CollectSpawn(t))
          /\ WF_vars(CollectWait(t))
          /\ WF_vars(Drain(t))
          /\ \A k \in 1..MaxCollectors :
                /\ SF_vars(GoEmit(t, k))
                /\ WF_vars(GoReturn(t, k))

SpecLive == InitLive /\ [][NextLive]_vars /\ Fairness

\* ------------------------------------------------------------------------
\* Direct calls: isMetricEnabled and the built-in collectors' Collect
\* ------------------------------------------------------------------------

\* CollectorManager.InitializeCollectors has installed the built-in
\* collectors; the configuration is any pair of lists.
InitPolicy ==
    LET \* CollectorConfig values: the enabled-metrics allow-list and the
        \* disabled-metrics deny-list.
        Configs == [ EnabledMetrics  : SeqUpTo(MetricNames, MaxListLen),
                     DisabledMetrics : SeqUpTo(MetricNames, MaxListLen) ]
    IN  /\ collectors = InitializeCollectors
        /\ mu = NoTask
        /\ cancelled = FALSE
        /\ crashed = FALSE
        /\ config \in Configs
        /\ last = NoCall
        /\ ProfInit
        /\ retired = << >>
        /\ TaskInit

\* bc.isMetricEnabled(metricName)
CallIsMetricEnabled(metricName) ==
    /\ last' = Call("isMetricEnabled", metricName,
                    isMetricEnabled(config, metricName), 0, 0)
    /\ UNCHANGED << regVars, pc, arg, callVars, chLen, descVars, config,
                    profVars, retired >>

\* cm.isMetricEnabled(metricName)
CallCmIsMetricEnabled(metricName) ==
    /\ last' = Call("cmIsMetricEnabled", metricName,
                    cmIsMetricEnabled(config, metricName), 0, 0)
    /\ UNCHANGED << regVars, pc, arg, callVars, chLen, descVars, config,
                    profVars, retired >>

\* Collect(ch) of the built-in collector c, called on its own: when the
\* gate at its top fails it returns at once; otherwise it issues its first
\* upstream query and goes on, ending with q queries issued and e
\* observations emitted.
BuiltinCollect(c) ==
    LET \* The condition at the top of each built-in collector's Collect under
        \* which the call goes on to query the server (FALSE: it returns at once).
        PassesGate(name, cfg) ==
            IF name = "collstats"
            THEN ~(~isMetricEnabled(cfg, "collstats")
                   /\ ~isMetricEnabled(cfg, "collection_stats"))
            ELSE isMetricEnabled(cfg, name)
    IN  /\ c \in Range(collectors)
        /\ IF ~PassesGate(c, config)
           THEN last' = Call("Collect", c, FALSE, 0, 0)
           ELSE \E q \in 1..MaxQueries, e \in 0..MaxQueries :
                   last' = Call("Collect", c, TRUE, q, e)
        /\ UNCHANGED << regVars, pc, arg, callVars, chLen, descVars, config,
                        profVars, retired >>

NextPolicy ==
    \/ \E n \in QueryNames : CallIsMetricEnabled(n)
    \/ \E n \in QueryNames : CallCmIsMetricEnabled(n)
    \/ \E c \in Builtin : BuiltinCollect(c)

SpecPolicy == InitPolicy /\ [][NextPolicy]_vars

\* ------------------------------------------------------------------------
\* Properties
\* ------------------------------------------------------------------------

\* Goroutines of task t's Collect call whose collector panicked.
Panicked(t) == { k \in 1..Len(gor[t]) : gor[t][k].panicked }

\* No collector of the list reports the given name.
NoneNamed(list, name) == \A i \in 1..Len(list) : Name(list[i]) # name

\* C1 - Failure isolation: when Collect has returned, every collector that
\* did not panic has emitted its full observation set, the number of
\* recorded (and logged) faults equals the number of collectors that
\* panicked, the summary carries that count, and no panic ever escapes.
C1_FailureIsolation ==
    /\ ~crashed
    /\ \A t \in Tasks : pc[t] = "collect_ret" =>
          /\ \A k \in 1..Len(gor[t]) :
                ~gor[t][k].panicked =>
                    gor[t][k].emitted = NumObs(gor[t][k].c)
          /\ Len(errors[t]) = Cardinality(Panicked(t))
          /\ logged[t] = Cardinality(Panicked(t))
          /\ summary[t] = IF Panicked(t) = {} THEN -1
                                              ELSE Cardinality(Panicked(t))

\* A cycle with one collector that panicked and one that emitted all of
\* its observations has returned with exactly one fault recorded.
C1_Witness ==
    \E t \in Tasks :
        /\ pc[t] = "collect_ret"
        /\ Len(gor[t]) = 2
        /\ Cardinality(Panicked(t)) = 1
        /\ Len(errors[t]) = 1
        /\ \E k \in 1..2 : ~gor[t][k].panicked /\ gor[t][k].emitted = 2

\* C2 - Fan-out: Collect starts at most one goroutine per collector the
\* registry held when the call took the lock, and when it has returned
\* there is exactly one goroutine per such collector, in registry order,
\* each invoked once and each finished.
C2_FanOut ==
    \A t \in Tasks :
        /\ pc[t] = "collect_spawn" =>
              /\ Len(gor[t]) = idx[t] - 1
              /\ Len(gor[t]) <= Len(regAtCall[t])
              /\ wg[t] = Cardinality(Running(t))
        /\ pc[t] = "collect_ret" =>
              /\ Len(gor[t]) = Len(regAtCall[t])
              /\ \A k \in 1..Len(gor[t]) :
                    /\ gor[t][k].c = regAtCall[t][k]
                    /\ gor[t][k].st = "done"

\* A cycle over a registry of two collectors has returned although the
\* registry was changed while it ran.
C2_Witness ==
    \E t \in Tasks :
        /\ pc[t] = "collect_ret"
        /\ Len(regAtCall[t]) = 2
        /\ collectors # regAtCall[t]
        /\ \A k \in 1..2 : gor[t][k].st = "done"

\* C3 - Self-suppression: a built-in collector whose Name() is disabled
\* under the configuration issues no upstream query and emits nothing.
C3_SelfSuppression ==
    (last.op = "Collect" /\ ~isMetricEnabled(config, last.name)) =>
        (last.queries = 0 /\ last.emitted = 0)

\* C4 - Enablement decision: both isMetricEnabled methods return
\* (name not in deny-list) and (allow-list empty or name in allow-list).
C4_EnablementDecision ==
    LET \* The allow/deny decision written over the lists as sets.
        EnabledBySets(cfg, n) ==
            /\ n \notin Range(cfg.DisabledMetrics)
            /\ (cfg.EnabledMetrics = << >> \/ n \in Range(cfg.EnabledMetrics))
    IN  last.op \in {"isMetricEnabled", "cmIsMetricEnabled"} =>
            last.result = EnabledBySets(config, last.name)

\* isMetricEnabled was asked about a name that is in both lists and
\* answered false.
C4_Witness ==
    /\ last.op = "isMetricEnabled"
    /\ last.name \in Range(config.DisabledMetrics)
    /\ last.name \in Range(config.EnabledMetrics)
    /\ last.result = FALSE

\* C5 as stated - with a non-empty allow-list isMetricEnabled returns true
\* exactly for the members of the allow-list.
C5_AllowListIff ==
    (last.op = "isMetricEnabled" /\ Len(config.EnabledMetrics) > 0) =>
        (last.result <=> last.name \in Range(config.EnabledMetrics))

\* C5 amended - with a non-empty allow-list and a name that is not in the
\* deny-list, isMetricEnabled returns true exactly for the members of the
\* allow-list.
C5_AllowListIffNotDenied ==
    (/\ last.op = "isMetricEnabled"
     /\ Len(config.EnabledMetrics) > 0
     /\ last.name \notin Range(config.DisabledMetrics)) =>
        (last.result <=> last.name \in Range(config.EnabledMetrics))

\* isMetricEnabled was asked, under a non-empty allow-list and a non-empty
\* deny-list, about a member of the allow-list only, and answered true.
C5_Witness ==
    /\ last.op = "isMetricEnabled"
    /\ Len(config.EnabledMetrics) > 0
    /\ Len(config.DisabledMetrics) > 0
    /\ last.name \in Range(config.EnabledMetrics)
    /\ last.name \notin Range(config.DisabledMetrics)
    /\ last.result = TRUE

\* C6 - Termination: every Collect call that has taken the lock eventually
\* returns, whichever collectors panic, while the channel is drained.
C6_Termination ==
    \A t \in Scrapers : (pc[t] = "collect_copy") ~> (pc[t] = "collect_ret")

\* A cycle in which every one of at least two collectors panicked has
\* returned with the wait-group back at zero.
C6_Witness ==
    \E t \in Scrapers :
        /\ pc[t] = "collect_ret"
        /\ Len(gor[t]) >= 2
        /\ Cardinality(Panicked(t)) = Len(gor[t])
        /\ wg[t] = 0

\* C7 - RemoveCollector of a name no registered collector has leaves the
\* list as it was, and raises no panic.
C7_RemoveAbsentNoOp ==
    \A t \in Tasks :
        (pc[t] = "remove_ret" /\ NoneNamed(regAtCall[t], arg[t])) =>
            (snap[t] = regAtCall[t] /\ collectors = regAtCall[t] /\ ~crashed)

\* RemoveCollector of an unregistered name has returned on a non-empty
\* registry.
C7_Witness ==
    \E t \in Tasks :
        /\ pc[t] = "remove_ret"
        /\ NoneNamed(regAtCall[t], arg[t])
        /\ Len(regAtCall[t]) = 2
        /\ Len(collectors) = 2

\* C8 - RemoveCollector of a registered name removes exactly the first
\* collector of that name and keeps the others in order; and adding a
\* collector whose name is new and removing that name gives back the list.
C8_RemoveFirstNamed ==
    /\ \A t \in Tasks :
          (pc[t] = "remove_ret" /\ ~NoneNamed(regAtCall[t], arg[t])) =>
              \E i \in 1..Len(regAtCall[t]) :
                  /\ Name(regAtCall[t][i]) = arg[t]
                  /\ \A j \in 1..(i - 1) : Name(regAtCall[t][j]) # arg[t]
                  /\ Len(snap[t]) = Len(regAtCall[t]) - 1
                  /\ \A j \in 1..Len(snap[t]) :
                        snap[t][j] = IF j < i THEN regAtCall[t][j]
                                              ELSE regAtCall[t][j + 1]
    /\ \A c \in Coll :
          NoneNamed(collectors, Name(c)) =>
              RemoveLoop(Append(collectors, c), Name(c), 1) = collectors

\* RemoveCollector has returned after removing the first of two collectors
\* that share the name.
C8_Witness ==
    \E t \in Tasks :
        /\ pc[t] = "remove_ret"
        /\ Len(regAtCall[t]) = 2
        /\ \A i \in 1..2 : Name(regAtCall[t][i]) = arg[t]
        /\ snap[t] = << regAtCall[t][2] >>

\* C9 - Lock discipline: a task reads or writes the collector list only
\* while it holds the lock, so no task is inside Describe's loop while
\* another task is inside AddCollector or RemoveCollector.
C9_ListAccessLocked ==
    /\ \A t \in Tasks :
          pc[t] \in {"add", "remove", "collect_copy", "describe"} => mu = t
    /\ ~ \E t, u \in Tasks :
            t # u /\ pc[t] = "describe" /\ pc[u] \in {"add", "remove"}

\* C10 - A Collect call that begins after Shutdown starts no collector.
C10_NoDispatchAfterShutdown ==
    \A t \in Tasks : callCtxDone[t] => Len(gor[t]) = 0

\* ------------------------------------------------------------------------
\* Values of a status snapshot (bson.M) and float64 arithmetic
\* ------------------------------------------------------------------------

\* A Go value held in an interface{}: t is its dynamic type.
Nil == [ t |-> "nil" ]
StrV(s) == [ t |-> "string", s |-> s ]
IntV(t, n) == [ t |-> t, v |-> n ]
FltV(t, f) == [ t |-> t, f |-> f ]
DocV(d) == [ t |-> "doc", d |-> d ]

\* Marks a key that a snapshot under construction does not have.
Missing == [ t |-> "missing" ]

\* The bson.M whose keys are the fields of rec that are not Missing.
MkDoc(rec) ==
    [ k \in { x \in DOMAIN rec : rec[x] # Missing } |-> rec[k] ]

\* m[key] of a Go map: the nil interface when the key is absent.
Get(doc, key) == IF key \in DOMAIN doc THEN doc[key] ELSE Nil

\* A float64: the finite number m * 2^e in lowest terms (m odd, or m = 0
\* and e = 0), an infinity of sign m, or NaN.
PosInf == [ k |-> "inf", m |-> 1, e |-> 0 ]
NegInf == [ k |-> "inf", m |-> -1, e |-> 0 ]
NaN == [ k |-> "nan", m |-> 0, e |-> 0 ]

RECURSIVE Norm(_, _)
Norm(m, e) ==
    IF m = 0 THEN [ k |-> "fin", m |-> 0, e |-> 0 ]
    ELSE IF m % 2 = 0 THEN Norm(m \div 2, e + 1)
    ELSE [ k |-> "fin", m |-> m, e |-> e ]

\* float64(v) of an integer v. Every integer of the model is below 2^53 in
\* magnitude, where the conversion is exact.
Float64OfInt(n) == Norm(n, 0)

\* The float64 literal 1024 of `*value*1024*1024`.
KiB == 1024

\* x * y in float64 for the operands that occur: products with a power of
\* two are exact, an infinity absorbs a positive finite factor, NaN spreads.
FMul(x, y) ==
    IF x.k = "nan" \/ y.k = "nan" THEN NaN
    ELSE IF x.k = "inf" \/ y.k = "inf"
         THEN IF x.m * y.m = 0 THEN NaN
              ELSE IF x.m * y.m > 0 THEN PosInf ELSE NegInf
         ELSE Norm(x.m * y.m, x.e + y.e)

\* v < 0 in float64: false for NaN.
FNeg(f) == f.k # "nan" /\ f.m < 0

\* v >= 0 in float64: false for NaN.
FNonNeg(f) == f.k # "nan" /\ f.m >= 0

\* Go numeric types: those safeGetNumericValue has a case for, and the
\* narrower ones it has none for.
WideInts == {"int64", "int32", "int"}
NarrowInts == {"int8", "int16"}

NumericValues ==
    LET Floats ==
            { Norm(m, e) : m \in -MaxNum..MaxNum, e \in -MaxExp..MaxExp }
                \cup { Norm(MockUptime, 0), PosInf, NegInf, NaN }
        \* Integers and floats that snapshots are filled with: small magnitudes of
        \* both signs and the two values of the mock snapshot of the tests.
        Ints == (-MaxNum..MaxNum) \cup {MockUptime, MockResident}
    IN  { IntV(t, n) : t \in WideInts, n \in Ints }
            \cup { IntV(t, n) : t \in NarrowInts, n \in -MaxNum..MaxNum }
            \cup { FltV(t, f) : t \in {"float64", "float32"}, f \in Floats }

\* ------------------------------------------------------------------------
\* safeGetNumericValue / BaseCollector.getNumericValue
\* ------------------------------------------------------------------------

\* A *float64: nil, or a pointer to f.
Absent == [ ok |-> FALSE ]
Some(f) == [ ok |-> TRUE, f |-> f ]

\* Variant: zero is rejected together with the negative numbers.
safeGetNumericValue_RejectZero(value) ==
    CASE value.t \in {"int64", "int32", "int"} ->
            IF value.v <= 0 THEN Absent ELSE Some(Float64OfInt(value.v))
      [] value.t = "float64" ->
            IF FNeg(value.f) \/ value.f.m = 0 THEN Absent ELSE Some(value.f)
      [] OTHER -> Absent

\* The type switch of safeGetNumericValue: one case each for int64, int32,
\* int and float64, nil from the default case.
safeGetNumericValue(value) ==
    CASE value.t = "int64" ->
            IF value.v < 0 THEN Absent ELSE Some(Float64OfInt(value.v))
      [] value.t = "int32" ->
            IF value.v < 0 THEN Absent ELSE Some(Float64OfInt(value.v))
      [] value.t = "int" ->
            IF value.v < 0 THEN Absent ELSE Some(Float64OfInt(value.v))
      [] value.t = "float64" ->
            IF FNeg(value.f) THEN Absent ELSE Some(value.f)
      [] OTHER -> Absent

\* bc.getNumericValue(value)
getNumericValue(value) == safeGetNumericValue(value)

\* ------------------------------------------------------------------------
\* Topology labels: getInstanceInfo and addCustomLabels
\* ------------------------------------------------------------------------

TopologyKeys == {"instance", "replica_set", "shard"}

\* Variant: the replica set and the shard are looked at only when the host
\* was found.
getInstanceInfo_Nested(result) ==
    LET host  == Get(result, "host")
        repl  == Get(result, "repl")
        shard == Get(result, "shard")
        setName == IF repl.t = "doc" THEN Get(repl.d, "setName") ELSE Nil
        found == host.t = "string"
    IN  [ instance    |-> IF found THEN host.s ELSE "unknown",
          replica_set |-> IF found /\ setName.t = "string"
                          THEN setName.s ELSE "unknown",
          shard       |-> IF found /\ shard.t = "string"
                          THEN shard.s ELSE "unknown" ]

\* BaseCollector.getInstanceInfo(result): three entries preset to
\* "unknown", each overwritten when its type assertion on the snapshot
\* succeeds. config.CustomLabels is not read.
getInstanceInfo(result) ==
    LET host  == Get(result, "host")
        repl  == Get(result, "repl")
        shard == Get(result, "shard")
        setName == IF repl.t = "doc" THEN Get(repl.d, "setName") ELSE Nil
    IN  [ instance    |-> IF host.t = "string" THEN host.s ELSE "unknown",
          replica_set |-> IF setName.t = "string"
                          THEN setName.s ELSE "unknown",
          shard       |-> IF shard.t = "string" THEN shard.s ELSE "unknown" ]

\* bc.addCustomLabels(labels): every entry of config.CustomLabels is
\* written into labels, replacing an entry with the same key.
addCustomLabels(cfg, labels) ==
    [ k \in DOMAIN labels \cup DOMAIN cfg.CustomLabels |->
        IF k \in DOMAIN cfg.CustomLabels THEN cfg.CustomLabels[k]
        ELSE labels[k] ]

\* QueryExecutorCollector.getInstanceInfo: the same three entries, then
\* addCustomLabels. (LockMetricsCollector and OperationMetricsCollector
\* carry the same method but are never constructed.)
qeGetInstanceInfo(cfg, result) == addCustomLabels(cfg, getInstanceInfo(result))

\* The label values every collector passes to MustNewConstMetric:
\* instance["instance"], instance["replica_set"], instance["shard"].
ObsLabels(instance) == [ k \in TopologyKeys |-> instance[k] ]

LabelConfigs ==
    LET CustomLabelSets ==
            LET \* The static label maps a configuration may carry (custom_labels).
                NoLabels == MkDoc([ env |-> Missing ])
            IN  { NoLabels,
                  [ env |-> "prod" ],
                  [ instance |-> "static" ],
                  [ env |-> "prod", instance |-> "static" ] }
    IN  { [ EnabledMetrics |-> << >>, DisabledMetrics |-> << >>,
            CustomLabels |-> l ] : l \in CustomLabelSets }

TopologySnapshots ==
    LET \* Values found under host, repl and shard: absent, of a wrong type, or
        \* well-formed.
        HostVals == { Missing, IntV("int32", 1), StrV("db1:27017") }
        ReplVals ==
            { Missing, StrV("rs0"),
              DocV(MkDoc([ setName |-> Missing ])),
              DocV([ setName |-> IntV("int32", 1) ]),
              DocV([ setName |-> StrV("rs0") ]) }
        ShardVals == { Missing, Nil, StrV("shard01") }
    IN  { MkDoc([ host |-> h, repl |-> r, shard |-> s ]) :
            h \in HostVals, r \in ReplVals, s \in ShardVals }

\* ------------------------------------------------------------------------
\* ServerStatusCollector.collectMetrics: uptime, connections and memory
\* ------------------------------------------------------------------------

\* One observation sent to the channel: the descriptor's key, the label
\* values by label name, and the float64 value.
Obs(desc, labels, value) ==
    [ desc |-> desc, labels |-> labels, value |-> value ]

\* Variant of ToBytes: one factor 1024 only.
ToBytes_Once(f) == FMul(f, Float64OfInt(KiB))

\* *value*1024*1024
ToBytes(f) == FMul(FMul(f, Float64OfInt(KiB)), Float64OfInt(KiB))

\* One `for key, label := range pairs` loop: an observation for every key
\* whose value getNumericValue accepts. Go fixes no order for the loop; the
\* observations are listed in the order of the map literal and nothing
\* below depends on the order.
RangeEmit(desc, labelName, pairs, doc, instance, scaled) ==
    LET emit[i \in 0..Len(pairs)] ==
            IF i = 0 THEN << >>
            ELSE LET value == getNumericValue(Get(doc, pairs[i][1]))
                 IN  IF value.ok
                     THEN Append(emit[i - 1],
                            Obs(desc,
                                ObsLabels(instance) @@ (labelName :> pairs[i][2]),
                                IF scaled THEN ToBytes(value.f) ELSE value.f))
                     ELSE emit[i - 1]
    IN  emit[Len(pairs)]

\* if uptime, ok := result["uptime"].(float64); ok && uptime >= 0 { ... }
collectUptime(result, instance) ==
    LET uptime == Get(result, "uptime")
    IN  IF uptime.t = "float64" /\ FNonNeg(uptime.f)
        THEN << Obs("uptime_seconds", ObsLabels(instance), uptime.f) >>
        ELSE << >>

\* if connections, ok := result["connections"].(bson.M); ok { ... }
collectConnections(result, instance) ==
    LET \* The key/label pairs of the map literals `states`, `metricTypes` and
        \* `memTypes`.
        states ==
            << << "current", "current" >>, << "available", "available" >>,
               << "active", "active" >>, << "totalCreated", "total_created" >> >>
        metricTypes ==
            << << "awaitingTopology", "awaiting_topology" >>,
               << "pending", "pending" >>, << "rejected", "rejected" >>,
               << "timedOut", "timed_out" >> >>
        connections == Get(result, "connections")
    IN  IF connections.t # "doc" THEN << >>
        ELSE LET metrics == Get(connections.d, "metrics")
             IN  RangeEmit("connections", "state", states, connections.d,
                           instance, FALSE)
                 \o (IF metrics.t # "doc" THEN << >>
                     ELSE RangeEmit("connections_metrics", "type",
                                    metricTypes, metrics.d, instance, FALSE))

\* if mem, ok := result["mem"].(bson.M); ok { ... }
collectMemory(result, instance) ==
    LET memTypes ==
            << << "resident", "resident" >>, << "virtual", "virtual" >>,
               << "mapped", "mapped" >>,
               << "mappedWithJournal", "mapped_with_journal" >> >>
        mem == Get(result, "mem")
    IN  IF mem.t # "doc" THEN << >>
        ELSE RangeEmit("memory", "type", memTypes, mem.d, instance, TRUE)

\* collectMetrics(ctx, ch, result) up to the memory block. The blocks after
\* it (extra_info, network, opcounters, metrics.document) send to other
\* descriptors and are left out.
collectMetrics(result) ==
    LET instance == getInstanceInfo(result)
    IN  collectUptime(result, instance)
            \o collectConnections(result, instance)
            \o collectMemory(result, instance)

\* Status snapshots handed to collectMetrics. The connections and the
\* memory document vary one at a time.
StatusSnapshots ==
    LET UptimeVals ==
            { Missing, StrV("invalid"),
              IntV("int64", MockUptime), IntV("int32", MockUptime),
              FltV("float64", Norm(MockUptime, 0)), FltV("float64", Norm(-1, 0)),
              FltV("float64", NaN) }
        ConnVals ==
            { Missing, StrV("invalid") }
                \cup { DocV(MkDoc([ current |-> c, available |-> a, metrics |-> m ])) :
                         c \in { Missing, IntV("int32", 0), IntV("int32", MaxNum),
                                 IntV("int64", -1), FltV("float64", Norm(1, -1)),
                                 StrV("invalid") },
                         a \in { Missing, IntV("int32", 1) },
                         m \in { Missing, DocV([ pending |-> IntV("int64", 1) ]) } }
        MemVals ==
            LET \* Numbers a decoded snapshot can hold: BSON int32, int64 and double.
                BsonNumbers ==
                    { v \in NumericValues : v.t \in {"int64", "int32", "float64"} }
            IN  { Missing, StrV("invalid") }
                    \cup { DocV(MkDoc([ resident |-> r, virtual |-> v ])) :
                             r \in BsonNumbers \cup { Missing, StrV("invalid") },
                             v \in { Missing, IntV("int32", 1) } }
    IN  { MkDoc([ host |-> h, uptime |-> u, connections |-> c, mem |-> m ]) :
            h \in { Missing, StrV("db1:27017") }, u \in UptimeVals,
            c \in ConnVals, m \in { Missing } }
        \cup
        { MkDoc([ host |-> h, uptime |-> u, connections |-> c, mem |-> m ]) :
            h \in { StrV("db1:27017") }, u \in { Missing },
            c \in { Missing, DocV([ current |-> IntV("int32", MaxNum) ]) },
            m \in MemVals }

\* ------------------------------------------------------------------------
\* Describe of the built-in collectors and of the MultiCollector, called
\* one after the other
\* ------------------------------------------------------------------------

\* prometheus.NewDesc(name, help, labels, nil)
NewDesc(name, labels) == [ name |-> name, labels |-> labels ]

TopologyLabels == << "instance", "replica_set", "shard" >>

\* The descriptors map the constructor of c fills (its first entries), for
\* the collectors InitializeCollectors installs first. No Collect or
\* Describe method writes to the map.
descriptors(c) ==
    CASE c = "server_status" ->
            << NewDesc("mongodb_instance_uptime_seconds", TopologyLabels),
               NewDesc("mongodb_connections",
                       TopologyLabels \o << "state" >>),
               NewDesc("mongodb_memory_bytes",
                       TopologyLabels \o << "type" >>),
               NewDesc("mongodb_extra_info",
                       TopologyLabels \o << "type" >>) >>
      [] c = "replica_set_status" ->
            << NewDesc("mongodb_replset_member_state",
                       TopologyLabels \o << "name", "state" >>),
               NewDesc("mongodb_replset_member_health",
                       TopologyLabels \o << "name", "state" >>),
               NewDesc("mongodb_replset_number_of_members", TopologyLabels),
               NewDesc("mongodb_replset_oplog_size_bytes", TopologyLabels) >>
      [] c = "query_executor" ->
            << NewDesc("mongodb_metrics_query_executor_total",
                       TopologyLabels),
               NewDesc("mongodb_metrics_query_executor_scanned_total",
                       TopologyLabels),
               NewDesc("mongodb_metrics_query_executor_scanned_objects_total",
                       TopologyLabels) >>
      [] OTHER -> << >>

\* Collectors whose descriptors are written out above.
Described == { "server_status", "replica_set_status", "query_executor" }

\* The descriptors of c that are told apart: at most MaxDescs of them.
Kept(c) ==
    { descriptors(c)[i] :
        i \in 1..(IF Len(descriptors(c)) < MaxDescs
                  THEN Len(descriptors(c)) ELSE MaxDescs) }

\* All sequences that list every element of S once.
Perms(S) ==
    { f \in [ 1..Cardinality(S) -> S ] :
        \A i, j \in 1..Cardinality(S) : f[i] = f[j] => i = j }

\* Variant: any number of the sends may be missing.
DescribeOrders_Partial(c) == UNION { Perms(T) : T \in SUBSET Kept(c) }

\* for _, desc := range c.descriptors { ch <- desc }: every descriptor
\* once, in whatever order Go walks the map.
DescribeOrders(c) == Perms(Kept(c))

\* MultiCollector.Describe over the list: the Describe of each collector
\* in list order.
RECURSIVE MultiDescribeOrders(_)
MultiDescribeOrders(list) ==
    IF list = << >> THEN { << >> }
    ELSE { h \o t : h \in DescribeOrders(Head(list)),
                    t \in MultiDescribeOrders(Tail(list)) }

\* ------------------------------------------------------------------------
\* The documented catalogue of collector names
\* ------------------------------------------------------------------------

\* metrics.enabled_metrics of the example configuration.
EnabledMetricsCatalogue ==
    { "server_status", "replica_set_status", "sharding", "wiredtiger",
      "locks", "index_stats", "storage_stats", "query_executor",
      "operation_metrics", "collstats", "cursors", "profile",
      "connection_pool", "compatibility" }

\* ------------------------------------------------------------------------
\* Direct calls of the helpers, one after the other
\* ------------------------------------------------------------------------

\* A call that is about to be made: the function and its argument.
Pending(fn, input) == [ op |-> "pending", fn |-> fn, arg |-> input ]

\* The call just made: its operation, its argument and what it returned
\* or sent to the channel.
HCall(op, input, out) == [ op |-> op, arg |-> input, out |-> out ]

\* A Describe call also remembers the set of descriptors that the Describe
\* call right before it, on the same collector, sent.
DCall(c, out) ==
    [ op |-> "Describe", arg |-> c, out |-> out,
      again  |-> (last.op = "Describe"),
      before |-> IF last.op = "Describe" THEN Range(last.out) ELSE {} ]

\* Everything a helper call leaves alone.
helperFrame ==
    << regVars, pc, arg, callVars, chLen, descVars, config, profVars,
                    retired >>

\* The calls that are made: every helper on every argument enumerated.
PendingCall ==
    LET GoValues == NumericValues \cup { Nil, StrV("invalid") }
    IN  \/ last \in { Pending("getInstanceInfo", r) : r \in TopologySnapshots }
        \/ last \in { Pending("qeGetInstanceInfo", r) : r \in TopologySnapshots }
        \/ last \in { Pending("safeGetNumericValue", v) : v \in GoValues }
        \/ last \in { Pending("collectMetrics", r) : r \in StatusSnapshots }
        \/ last \in { Pending("Describe", c) : c \in Described }
        \/ last = Pending("Describe", "multi_collector")

\* Server.Start has begun installing the built-in collectors, the
\* configuration carries any of the static label maps, and one helper is
\* about to be called.
InitHelpers ==
    /\ collectors = SubSeq(InitializeCollectors, 1, MaxCollectors)
    /\ mu = NoTask
    /\ cancelled = FALSE
    /\ crashed = FALSE
    /\ config \in LabelConfigs
    /\ PendingCall
    /\ ProfInit
    /\ retired = << >>
    /\ TaskInit

IsPending(fn) == last.op = "pending" /\ last.fn = fn

\* bc.getInstanceInfo(result)
CallGetInstanceInfo ==
    /\ IsPending("getInstanceInfo")
    /\ last' = HCall("getInstanceInfo", last.arg, getInstanceInfo(last.arg))
    /\ UNCHANGED helperFrame

\* QueryExecutorCollector.getInstanceInfo(result)
CallQeGetInstanceInfo ==
    /\ IsPending("qeGetInstanceInfo")
    /\ last' = HCall("qeGetInstanceInfo", last.arg,
                     qeGetInstanceInfo(config, last.arg))
    /\ UNCHANGED helperFrame

\* safeGetNumericValue(value)
CallSafeGetNumericValue ==
    /\ IsPending("safeGetNumericValue")
    /\ last' = HCall("safeGetNumericValue", last.arg,
                     safeGetNumericValue(last.arg))
    /\ UNCHANGED helperFrame

\* ServerStatusCollector.collectMetrics(ctx, ch, result)
CallCollectMetrics ==
    /\ IsPending("collectMetrics")
    /\ last' = HCall("collectMetrics", last.arg, collectMetrics(last.arg))
    /\ UNCHANGED helperFrame

\* c.Describe(ch) of one built-in collector, a first or a repeated time
CallDescribe ==
    /\ IsPending("Describe") \/ last.op = "Describe"
    /\ last.arg \in Described
    /\ \E out \in DescribeOrders(last.arg) : last' = DCall(last.arg, out)
    /\ UNCHANGED helperFrame

\* mc.Describe(ch) with no other call running, a first or a repeated time
CallMultiDescribe ==
    /\ IsPending("Describe") \/ last.op = "Describe"
    /\ last.arg = "multi_collector"
    /\ \E out \in MultiDescribeOrders(collectors) :
           last' = DCall("multi_collector", out)
    /\ UNCHANGED helperFrame

NextHelpers ==
    \/ CallGetInstanceInfo
    \/ CallQeGetInstanceInfo
    \/ CallSafeGetNumericValue
    \/ CallCollectMetrics
    \/ CallDescribe
    \/ CallMultiDescribe

SpecHelpers == InitHelpers /\ [][NextHelpers]_vars

\* ------------------------------------------------------------------------
\* Collect of single collectors against an upstream whose queries may fail
\* ------------------------------------------------------------------------

\* What one Collect call did, in order: the upstream queries it issued (n
\* numbers the shard or tells the database of a per-shard or per-database
\* query) and the observations it sent whatever the replies hold.
\* Observations that depend on fields of a reply are not listed.
Q(name, n) == [ e |-> "query", q |-> name, n |-> n ]
M(desc) == [ e |-> "send", q |-> desc, n |-> 0 ]

\* An observation whose value the code fixes: MustNewConstMetric(desc,
\* GaugeValue, value, ...).
Gauge(desc, value) == [ e |-> "send", q |-> desc, n |-> 0, v |-> value ]

\* env.fail holds the queries that fail in this cycle.
Failed(env, name) == name \in env.fail

\* ServerStatusCollector.Collect: the gate, then serverStatus.
serverStatusCollect(cfg, env) ==
    IF ~isMetricEnabled(cfg, "server_status") THEN << >>
    ELSE << Q("serverStatus", 0) >>

\* countDatabasesPerShard, for shard number n
countDatabasesPerShard(log, env, n) ==
    IF Failed(env, "config.databases.find")
    THEN Append(log, Q("config.databases.find", n))
    ELSE log \o << Q("config.databases.find", n), M("databases_per_shard") >>

\* collectShardInfo: config.shards, then one count per shard
collectShardInfo(log, env) ==
    LET perShard[n \in 0..env.shards] ==
            IF n = 0
            THEN log \o << Q("config.shards.find", 0), M("shards_total") >>
            ELSE countDatabasesPerShard(perShard[n - 1], env, n)
    IN  IF Failed(env, "config.shards.find")
        THEN Append(log, Q("config.shards.find", 0))
        ELSE perShard[env.shards]

\* collectBalancerStatus
collectBalancerStatus(log, env) == Append(log, Q("balancerStatus", 0))

\* collectChunkDistribution
collectChunkDistribution(log, env) ==
    Append(log, Q("config.chunks.aggregate", 0))

\* collectDatabaseShardDistribution
collectDatabaseShardDistribution(log, env) ==
    IF Failed(env, "config.collections.find")
    THEN Append(log, Q("config.collections.find", 0))
    ELSE log \o << Q("config.collections.find", 0),
                   M("sharded_collections_total") >>

\* collectMigrationStats
collectMigrationStats(log, env) ==
    Append(log, Q("config.changelog.aggregate", 0))

\* Variant: mongos_up is sent after the helpers have run.
collectShardingMetrics_UpLast(log, env) ==
    Append(collectMigrationStats(
             collectDatabaseShardDistribution(
               collectChunkDistribution(
                 collectBalancerStatus(collectShardInfo(log, env), env),
                 env),
               env),
             env),
           Gauge("mongos_up", Float64OfInt(1)))

\* collectShardingMetrics: mongos_up with value 1.0, then the five helpers
\* in turn; a helper whose query fails returns and the next one runs.
collectShardingMetrics(log, env) ==
    collectMigrationStats(
      collectDatabaseShardDistribution(
        collectChunkDistribution(
          collectBalancerStatus(
            collectShardInfo(
              Append(log, Gauge("mongos_up", Float64OfInt(1))), env),
            env),
          env),
        env),
      env)

\* Variant: a failed isMaster is logged and the call goes on.
shardingCollect_NoEarlyReturn(cfg, env) ==
    IF ~isMetricEnabled(cfg, "sharding") THEN << >>
    ELSE IF ~env.mongos THEN << Q("isMaster", 0) >>
    ELSE collectShardingMetrics(<< Q("isMaster", 0) >>, env)

\* ShardingCollector.Collect: the gate, isMaster, and on a mongos the
\* sharding metrics.
shardingCollect(cfg, env) ==
    IF ~isMetricEnabled(cfg, "sharding") THEN << >>
    ELSE IF Failed(env, "isMaster") THEN << Q("isMaster", 0) >>
    ELSE IF ~env.mongos THEN << Q("isMaster", 0) >>
    ELSE collectShardingMetrics(<< Q("isMaster", 0) >>, env)

\* collectCurrentOpCursorMetrics
collectCurrentOpCursorMetrics(log, env) == Append(log, Q("currentOp", 0))

\* collectCursorTimeoutSettings: getParameter cursorTimeoutMillis and, when
\* it fails, getParameter clientCursorMonitorFrequencySecs.
collectCursorTimeoutSettings(log, env) ==
    IF Failed(env, "getParameter.cursorTimeoutMillis")
    THEN log \o << Q("getParameter.cursorTimeoutMillis", 0),
                   Q("getParameter.clientCursorMonitorFrequencySecs", 0) >>
    ELSE Append(log, Q("getParameter.cursorTimeoutMillis", 0))

\* CursorCollector.Collect: the gate, serverStatus, then the helpers;
\* collectBasicCursorMetrics and collectCursorKillMetrics read the
\* serverStatus reply and issue nothing.
cursorCollect(cfg, env) ==
    IF ~isMetricEnabled(cfg, "cursors") THEN << >>
    ELSE IF Failed(env, "serverStatus") THEN << Q("serverStatus", 0) >>
    ELSE collectCursorTimeoutSettings(
           collectCurrentOpCursorMetrics(<< Q("serverStatus", 0) >>, env),
           env)

\* ------------------------------------------------------------------------
\* ProfileCollector.Collect and its watermark
\* ------------------------------------------------------------------------

\* What ListDatabaseNames returns, and shouldSkipDatabase.
ListedDatabases == << "admin", "app", "shop" >>
shouldSkipDatabase(dbName) == dbName \in {"admin", "config", "local"}

\* Variant: system.profile is queried whatever the profiling level.
collectDatabaseProfileMetrics_FindWhenOff(log, env, n) ==
    LET out == env.db[ListedDatabases[n]]
    IN  IF out = "status_fails"
        THEN Append(log, Q("profile", n))
        ELSE log \o << Q("profile", n), Q("system.profile.find", n) >>

\* Database number n of the listing.
collectDatabaseProfileMetrics(log, env, n) ==
    LET out == env.db[ListedDatabases[n]]
    IN  IF out = "status_fails" \/ out = "off"
        THEN Append(log, Q("profile", n))
        ELSE log \o << Q("profile", n), Q("system.profile.find", n) >>

\* Whether collectDatabaseProfileMetrics writes a log line for database
\* number n: c.logger.Debug after a failed status query or a failed Find
\* (c.logger.Error after a failed cursor.All); the return taken when the
\* reply's was field, the int32 written by the server's profile command, is
\* 0 logs nothing, and neither does the path that reads the entries.
profileLogs(env, n) ==
    env.db[ListedDatabases[n]] \in { "status_fails", "find_fails" }

\* The loop over the listing.
profileLoop(env) ==
    LET loop[n \in 0..Len(ListedDatabases)] ==
            IF n = 0 THEN << Q("listDatabases", 0) >>
            ELSE IF shouldSkipDatabase(ListedDatabases[n]) THEN loop[n - 1]
            ELSE collectDatabaseProfileMetrics(loop[n - 1], env, n)
    IN  loop[Len(ListedDatabases)]

\* The databases whose entries of the window were read.
ReadDbs(env) ==
    { ListedDatabases[n] : n \in { i \in 1..Len(ListedDatabases) :
          /\ ~shouldSkipDatabase(ListedDatabases[i])
          /\ env.db[ListedDatabases[i]] = "read" } }

\* The outcome of one Collect call of the ProfileCollector whose lastCheck
\* is watermark, at clock reading now: what it issued, the window it
\* handed to collectDatabaseProfileMetrics (none when it returned before
\* the loop) and the lastCheck it leaves.

\* Variant: the watermark is left where it was.
profileCollect_NoAdvance(cfg, env, watermark, now) ==
    IF ~isMetricEnabled(cfg, "profile")
    THEN [ log |-> << >>, window |-> << >>, lastCheck |-> watermark ]
    ELSE IF Failed(env, "listDatabases")
    THEN [ log |-> << Q("listDatabases", 0) >>, window |-> << >>,
           lastCheck |-> watermark ]
    ELSE [ log |-> profileLoop(env),
           window |-> << [ since |-> watermark, until |-> now,
                           read |-> ReadDbs(env) ] >>,
           lastCheck |-> watermark ]

\* Variant: the watermark moves also when the listing failed.
profileCollect_AdvanceOnFailure(cfg, env, watermark, now) ==
    IF ~isMetricEnabled(cfg, "profile")
    THEN [ log |-> << >>, window |-> << >>, lastCheck |-> watermark ]
    ELSE IF Failed(env, "listDatabases")
    THEN [ log |-> << Q("listDatabases", 0) >>, window |-> << >>,
           lastCheck |-> now ]
    ELSE [ log |-> profileLoop(env),
           window |-> << [ since |-> watermark, until |-> now,
                           read |-> ReadDbs(env) ] >>,
           lastCheck |-> now ]

\* ProfileCollector.Collect
profileCollect(cfg, env, watermark, now) ==
    IF ~isMetricEnabled(cfg, "profile")
    THEN [ log |-> << >>, window |-> << >>, lastCheck |-> watermark ]
    ELSE IF Failed(env, "listDatabases")
    THEN [ log |-> << Q("listDatabases", 0) >>, window |-> << >>,
           lastCheck |-> watermark ]
    ELSE [ log |-> profileLoop(env),
           window |-> << [ since |-> watermark, until |-> now,
                           read |-> ReadDbs(env) ] >>,
           lastCheck |-> now ]

\* ------------------------------------------------------------------------
\* Collect calls made one after the other
\* ------------------------------------------------------------------------

\* The outcome of a Collect call of collector c under env.
CCall(c, env, log) == [ op |-> "Collect", name |-> c, arg |-> env, log |-> log ]

ShardingQueries ==
    { "isMaster", "config.shards.find", "config.databases.find",
      "balancerStatus", "config.chunks.aggregate",
      "config.collections.find", "config.changelog.aggregate" }

ProfileEnvs ==
    LET \* What happens to one database in collectDatabaseProfileMetrics: the
        \* profile status query fails, profiling is off, the query of
        \* system.profile fails, or the entries of the window are read.
        DbOutcomes == { "status_fails", "off", "find_fails", "read" }
    IN  [ fail : SUBSET {"listDatabases"},
          db : [ {"app", "shop"} -> DbOutcomes ] ]

\* The built-in collectors are installed and one of them is about to be
\* called: once, or cycle after cycle for the ProfileCollector.
InitQueries ==
    LET ShardingEnvs ==
            [ fail : SUBSET ShardingQueries, mongos : BOOLEAN, shards : 0..MaxShards ]
        CursorEnvs ==
            LET CursorQueries ==
                    { "serverStatus", "currentOp", "getParameter.cursorTimeoutMillis",
                      "getParameter.clientCursorMonitorFrequencySecs" }
            IN  [ fail : SUBSET CursorQueries ]
        StatusEnvs == [ fail : SUBSET {"serverStatus"} ]
        \* The configurations of these calls: everything enabled, or the profile
        \* collector disabled.
        QueryConfigs ==
            { DefaultConfig,
              [ EnabledMetrics |-> << >>, DisabledMetrics |-> << "profile" >> ] }
    IN  /\ collectors = InitializeCollectors
        /\ mu = NoTask
        /\ cancelled = FALSE
        /\ crashed = FALSE
        /\ config \in QueryConfigs
        /\ \/ last \in { Pending("sharding", env) : env \in ShardingEnvs }
           \/ last \in { Pending("cursors", env) : env \in CursorEnvs }
           \/ last \in { Pending("server_status", env) : env \in StatusEnvs }
           \/ last = Pending("profile", << >>)
        /\ ProfInit
        /\ retired = << >>
        /\ TaskInit

ShardingCollect ==
    /\ IsPending("sharding")
    /\ last' = CCall("sharding", last.arg, shardingCollect(config, last.arg))
    /\ UNCHANGED helperFrame

CursorCollect ==
    /\ IsPending("cursors")
    /\ last' = CCall("cursors", last.arg, cursorCollect(config, last.arg))
    /\ UNCHANGED helperFrame

ServerStatusCollect ==
    /\ IsPending("server_status")
    /\ last' = CCall("server_status", last.arg,
                     serverStatusCollect(config, last.arg))
    /\ UNCHANGED helperFrame

\* One cycle of the ProfileCollector; no other cycle of it is running.
ProfileCollect(env) ==
    /\ IsPending("profile") \/ (last.op = "Collect" /\ last.name = "profile")
    /\ Len(windows) < MaxCycles
    /\ LET r == profileCollect(config, env, lastCheck, clock)
       IN  /\ last' = CCall("profile", env, r.log)
           /\ windows' = windows \o r.window
           /\ lastCheck' = r.lastCheck
    /\ UNCHANGED << regVars, pc, arg, callVars, chLen, descVars, config,
                    clock, retired >>

\* Time passes.
Tick ==
    /\ clock < MaxClock
    /\ clock' = clock + 1
    /\ UNCHANGED << regVars, pc, arg, callVars, chLen, descVars, config,
                    lastCheck, windows, retired, last >>

NextQueries ==
    \/ ShardingCollect
    \/ CursorCollect
    \/ ServerStatusCollect
    \/ \E env \in ProfileEnvs : ProfileCollect(env)
    \/ Tick

SpecQueries == InitQueries /\ [][NextQueries]_vars

\* ------------------------------------------------------------------------
\* Properties of the helpers
\* ------------------------------------------------------------------------

RECURSIVE Pow2(_)
Pow2(k) == IF k = 0 THEN 1 ELSE 2 * Pow2(k - 1)

\* The float64 f is the integer n.
Represents(f, n) == f.k = "fin" /\ f.e >= 0 /\ f.m * Pow2(f.e) = n

\* C11: getInstanceInfo returns exactly the keys instance, replica_set and
\* shard; each value is the snapshot's host / repl.setName / shard when that
\* field is a string and "unknown" otherwise, whatever the other two are.
C11_InstanceLabelsPopulated ==
    last.op = "getInstanceInfo" =>
        LET host  == Get(last.arg, "host")
            repl  == Get(last.arg, "repl")
            shard == Get(last.arg, "shard")
        IN  /\ DOMAIN last.out = TopologyKeys
            /\ last.out["instance"] =
                  (IF host.t = "string" THEN host.s ELSE "unknown")
            /\ last.out["replica_set"] =
                  (IF repl.t = "doc" /\ Get(repl.d, "setName").t = "string"
                   THEN Get(repl.d, "setName").s ELSE "unknown")
            /\ last.out["shard"] =
                  (IF shard.t = "string" THEN shard.s ELSE "unknown")

\* A partial snapshot: no usable host, but a replica set and a shard.
C11_Witness ==
    /\ last.op = "getInstanceInfo"
    /\ Get(last.arg, "host").t # "string"
    /\ last.out["instance"] = "unknown"
    /\ last.out["replica_set"] = "rs0"
    /\ last.out["shard"] = "shard01"

\* C12: the labels getInstanceInfo returns contain every configured custom
\* label with its configured value, and so do the labels of every
\* observation collectMetrics emits.
C12_CustomLabelsMerged ==
    /\ last.op = "getInstanceInfo" =>
          \A k \in DOMAIN config.CustomLabels :
              k \in DOMAIN last.out /\ last.out[k] = config.CustomLabels[k]
    /\ last.op = "collectMetrics" =>
          \A i \in 1..Len(last.out) : \A k \in DOMAIN config.CustomLabels :
              /\ k \in DOMAIN last.out[i].labels
              /\ last.out[i].labels[k] = config.CustomLabels[k]

C14_AnyWidth ==
    last.op = "safeGetNumericValue" =>
        LET v == last.arg
            r == last.out
        IN  /\ (v.t \in WideInts \cup NarrowInts /\ v.v >= 0) =>
                  r.ok /\ Represents(r.f, v.v)
            /\ (v.t \in {"float64", "float32"} /\ FNonNeg(v.f)) =>
                  r.ok /\ r.f = v.f

\* C15: when the snapshot's uptime is the integer 3600, collectMetrics emits
\* an uptime observation of value 3600.
C15_UptimeInteger ==
    LET IsInteger(v) == v.t \in WideInts \cup NarrowInts
    IN  (/\ last.op = "collectMetrics"
         /\ IsInteger(Get(last.arg, "uptime"))
         /\ Get(last.arg, "uptime").v = MockUptime) =>
            \E i \in 1..Len(last.out) :
                /\ last.out[i].desc = "uptime_seconds"
                /\ Represents(last.out[i].value, MockUptime)

\* The observations of out sent to desc with label name = value.
Labelled(out, desc, name, value) ==
    { i \in 1..Len(out) :
        out[i].desc = desc /\ out[i].labels[name] = value }

\* C16: for a non-negative mem.resident v there is exactly one memory
\* observation with type="resident" and its value is v * 2^20; for a
\* non-negative connections.current n there is exactly one connections
\* observation with state="current" and its value is n.
C16_MemoryAndConnections ==
    LET NumberOf(v) == IF v.t = "float64" THEN v.f ELSE Norm(v.v, 0)
        \* A BSON number that is zero or more, and its value as a float64.
        NonNegNumber(v) ==
            \/ v.t \in {"int32", "int64"} /\ v.v >= 0
            \/ v.t = "float64" /\ FNonNeg(v.f)
        \* The float64 f is x * 2^k.
        TimesPow2(f, x, k) ==
            IF x.k = "inf" THEN f = x
            ELSE f.k = "fin" /\ f.m = x.m /\ (x.m = 0 \/ f.e = x.e + k)
    IN  last.op = "collectMetrics" =>
            LET mem  == Get(last.arg, "mem")
                conn == Get(last.arg, "connections")
            IN  /\ (mem.t = "doc" /\ NonNegNumber(Get(mem.d, "resident"))) =>
                    LET hits == Labelled(last.out, "memory", "type", "resident")
                    IN  /\ Cardinality(hits) = 1
                        /\ \A i \in hits :
                              TimesPow2(last.out[i].value,
                                        NumberOf(Get(mem.d, "resident")), 20)
                /\ (conn.t = "doc" /\ NonNegNumber(Get(conn.d, "current"))) =>
                    LET hits == Labelled(last.out, "connections", "state",
                                         "current")
                    IN  /\ Cardinality(hits) = 1
                        /\ \A i \in hits :
                              TimesPow2(last.out[i].value,
                                        NumberOf(Get(conn.d, "current")), 0)

\* The mock snapshot's mem.resident = 104857600 = 25 * 2^22 is emitted as
\* 25 * 2^42, next to a connections.current observation.
C16_Witness ==
    /\ last.op = "collectMetrics"
    /\ Get(last.arg, "mem").t = "doc"
    /\ Get(Get(last.arg, "mem").d, "resident") = IntV("int64", MockResident)
    /\ \E i \in Labelled(last.out, "memory", "type", "resident") :
           last.out[i].value = [ k |-> "fin", m |-> 25, e |-> 42 ]
    /\ \E i \in Labelled(last.out, "connections", "state", "current") :
           Represents(last.out[i].value, MaxNum)

C18_CatalogueRegistered ==
    \A n \in EnabledMetricsCatalogue :
        \E i \in 1..Len(collectors) : collectors[i] = n

\* ------------------------------------------------------------------------
\* Properties of the Collect calls made one after the other
\* ------------------------------------------------------------------------

\* Entry i of the call's log is a query that failed.
QueryFailed(call, i) ==
    LET entry == call.log[i]
    IN  /\ entry.e = "query"
        /\ IF call.name = "profile"
           THEN \/ entry.q = "listDatabases" /\ Failed(call.arg, entry.q)
                \/ /\ entry.q = "profile"
                   /\ call.arg.db[ListedDatabases[entry.n]] = "status_fails"
                \/ /\ entry.q = "system.profile.find"
                   /\ call.arg.db[ListedDatabases[entry.n]] = "find_fails"
           ELSE Failed(call.arg, entry.q)

C20_WatermarkWindows ==
    LET \* The windows that hold the instant ts.
        Holding(ts) ==
            { k \in 1..Len(windows) :
                windows[k].since <= ts /\ ts < windows[k].until }
        \* The timestamps that are told apart.
        Instants == 0..MaxClock
    IN  /\ lastCheck <= clock
        /\ windows = << >> => lastCheck = 0
        /\ windows # << >> =>
              /\ windows[1].since = 0
              /\ windows[Len(windows)].until = lastCheck
        /\ \A k \in 1..Len(windows) : windows[k].since <= windows[k].until
        /\ \A k \in 1..(Len(windows) - 1) :
              windows[k + 1].since = windows[k].until
        /\ \A ts \in Instants :
              /\ Cardinality(Holding(ts)) <= 1
              /\ (windows # << >> /\ windows[1].since <= ts
                    /\ ts < windows[Len(windows)].until) =>
                    Cardinality(Holding(ts)) = 1

\* Two cycles at different clock readings, each with a window that is not
\* empty.
C20_Witness ==
    /\ Len(windows) >= 2
    /\ windows[1].since < windows[1].until
    /\ windows[2].since < windows[2].until
    /\ last.op = "Collect" /\ last.name = "profile"

\* ------------------------------------------------------------------------
\* Overlapping scrapes: two Collect calls on the same MultiCollector
\* ------------------------------------------------------------------------

\* promhttp.HandlerFor(s.registry, promhttp.HandlerOpts{}) puts no limit on
\* the requests in flight, so the HTTP server runs one Gather, and with it
\* one MultiCollector.Collect, per request that is being served.  Every
\* task is a request; the registry is the one filled before serving.
NextOverlap ==
    \/ \E t \in Tasks : CollectLock(t)
    \/ \E t \in Tasks : CollectCopy(t)
    \/ \E t \in Tasks : CollectSpawn(t)
    \/ \E t \in Tasks, k \in 1..MaxCollectors : GoEmit(t, k)
    \/ \E t \in Tasks, k \in 1..MaxCollectors : GoReturn(t, k)
    \/ \E t \in Tasks, k \in 1..MaxCollectors : GoPanic(t, k)
    \/ \E t \in Tasks : CollectWait(t)
    \/ \E t \in Tasks : Drain(t)
    \/ \E t \in Tasks : Return(t)

SpecOverlap == InitLive /\ [][NextOverlap]_vars

\* C21 - One call at a time: no collector instance has two of its Collect
\* calls running at the same moment, so the state an instance keeps between
\* cycles (ProfileCollector.lastCheck) is never read by one call while
\* another call writes it.
C21_SingleCollectPerInstance ==
    LET \* The calls of collector instance c's Collect that are running: one per
        \* goroutine of any task's cycle that is inside c.Collect(ch).
        Invocations(c) ==
            { << t, k >> \in Tasks \X (1..MaxCollectors) :
                  k \in Running(t) /\ gor[t][k].c = c }
    IN  \A c \in Coll : Cardinality(Invocations(c)) <= 1

\* ------------------------------------------------------------------------
\* Shutdown while a cycle is in flight
\* ------------------------------------------------------------------------

\* Server.Stop calls collectorManager.Shutdown() while the HTTP server is
\* still serving: the fan-out of SpecLive next to a task that shuts down.
NextShutdown ==
    \/ NextLive
    \/ \E t \in Admins : Shutdown(t)

SpecShutdown == InitLive /\ [][NextShutdown]_vars /\ Fairness

\* C22 - Shutdown is cooperative only: the lifecycle context is live until
\* the first Shutdown and done from then on, also across further Shutdown
\* calls; the step that cancels it changes nothing else (the registry and
\* every running call are as before); and a cycle that is in flight once the
\* context is done (between taking the lock and wg.Wait()) comes back from
\* wg.Wait() with one finished goroutine per collector of the list it
\* copied.
C22_ShutdownCooperative ==
    /\ ~cancelled
    /\ [][ /\ cancelled => cancelled'
           /\ cancelled' # cancelled =>
                 UNCHANGED << collectors, mu, crashed, pc, arg, callVars,
                              chLen, descVars, config, profVars, retired,
                              last >>
         ]_vars
    /\ \A t \in Scrapers :
          (cancelled /\ pc[t] \in {"collect_copy", "collect_spawn"}) ~>
              ( /\ pc[t] = "collect_ret"
                /\ Len(gor[t]) = Len(snap[t])
                /\ Running(t) = {} )

\* A cycle that began before Shutdown has returned after it, with both of
\* its collectors finished and the registry as the cycle found it.
C22_Witness ==
    \E t \in Scrapers :
        /\ cancelled
        /\ ~callCtxDone[t]
        /\ pc[t] = "collect_ret"
        /\ Running(t) = {}
        /\ Len(gor[t]) = 2
        /\ collectors = regAtCall[t]

\* ------------------------------------------------------------------------
\* Properties of the ProfileCollector's per-database steps
\* ------------------------------------------------------------------------

\* The last call is a cycle of the ProfileCollector that reached the loop
\* over the databases: it passed the gate and its listing succeeded.
ProfileCycleRan ==
    /\ last.op = "Collect"
    /\ last.name = "profile"
    /\ isMetricEnabled(config, "profile")
    /\ ~Failed(last.arg, "listDatabases")

\* C23 - Profiling off is skipped silently: in a cycle that reached the
\* loop, a database whose status reply says level 0 gets its status query
\* and nothing more: no query of system.profile, no entries read (so no
\* observation) and no log line; every database whose profiling is on has
\* its system.profile queried in the same cycle, and its observations are
\* aggregated when that query succeeds.
C23_ProfilingOffSkipped ==
    ProfileCycleRan =>
        \A n \in { i \in 1..Len(ListedDatabases) :
                      ~shouldSkipDatabase(ListedDatabases[i]) } :
            LET db == ListedDatabases[n]
                out == last.arg.db[db]
                find == Q("system.profile.find", n)
                window == windows[Len(windows)]
            IN  /\ Q("profile", n) \in Range(last.log)
                /\ out = "off" =>
                      /\ find \notin Range(last.log)
                      /\ db \notin window.read
                      /\ ~profileLogs(last.arg, n)
                /\ out \in {"find_fails", "read"} => find \in Range(last.log)
                /\ out = "read" => db \in window.read

\* A cycle in which the first user database has profiling off and the
\* second has it on and is read.
C23_Witness ==
    /\ ProfileCycleRan
    /\ last.arg.db["app"] = "off"
    /\ last.arg.db["shop"] = "read"
    /\ Q("system.profile.find", 3) \in Range(last.log)
    /\ Q("system.profile.find", 2) \notin Range(last.log)

\* ------------------------------------------------------------------------
\* Properties of the ShardingCollector's branch on the identity reply
\* ------------------------------------------------------------------------

\* The positions of log that hold a query of the cluster directory (the
\* config database and the balancer), which collectShardingMetrics'
\* helpers issue.
DirectoryAt(log) ==
    { j \in 1..Len(log) :
          log[j].e = "query" /\ log[j].q \in ShardingQueries \ {"isMaster"} }

\* The positions of log that hold an observation.
SentAt(log) == { j \in 1..Len(log) : log[j].e = "send" }

\* C24 - Sharding branch point: a ShardingCollector cycle whose identity
\* query succeeded does nothing more when the reply is not a router's (no
\* observation, no directory query); on a router it sends mongos_up with
\* value 1 exactly once, before the first directory query and before any
\* other observation.
C24_ShardingBranch ==
    ( /\ last.op = "Collect"
      /\ last.name = "sharding"
      /\ isMetricEnabled(config, "sharding")
      /\ ~Failed(last.arg, "isMaster") ) =>
        IF ~last.arg.mongos
        THEN /\ SentAt(last.log) = {}
             /\ DirectoryAt(last.log) = {}
             /\ last.log = << Q("isMaster", 0) >>
        ELSE \E i \in SentAt(last.log) :
                /\ last.log[i] = Gauge("mongos_up", Float64OfInt(1))
                /\ \A j \in DirectoryAt(last.log) \cup SentAt(last.log) :
                      /\ i <= j
                      /\ last.log[j].q = "mongos_up" => j = i

\* A router's cycle in which every directory query succeeded, and a cycle
\* on a process that is not a router, are both reachable; the witness is the
\* router's.
C24_Witness ==
    /\ last.op = "Collect"
    /\ last.name = "sharding"
    /\ last.arg.mongos
    /\ last.arg.fail = {}
    /\ Cardinality({ last.log[j].q : j \in DirectoryAt(last.log) }) =
           Cardinality(ShardingQueries \ {"isMaster"})
    /\ Cardinality(SentAt(last.log)) > 1

\* ------------------------------------------------------------------------
\* Properties of a cycle that runs while the registry changes
\* ------------------------------------------------------------------------

\* C27 - Cycle snapshot: the copy a cycle makes under the lock is the
\* registry of that instant, so it shows every change made before; a step
\* that changes the registry changes neither the copy nor the goroutines of
\* a cycle in flight; and the collectors a cycle starts are the entries of
\* its copy, in order, whatever the registry holds by then.
C27_CycleSnapshot ==
    [][ \A t \in Scrapers :
          /\ (pc[t] = "collect_copy" /\ pc'[t] = "collect_spawn") =>
                snap'[t] = collectors
          /\ collectors' # collectors =>
                (snap'[t] = snap[t] /\ gor'[t] = gor[t])
          /\ pc'[t] \in {"collect_spawn", "collect_ret"} =>
                /\ snap'[t] = regAtCall'[t]
                /\ [ k \in 1..Len(gor'[t]) |-> gor'[t][k].c ] =
                       SubSeq(snap'[t], 1, Len(gor'[t]))
      ]_vars

\* A cycle in flight is running a collector that has been removed from
\* the registry since the cycle copied it, while the registry holds a
\* collector the cycle does not run.
C27_Witness ==
    \E t \in Scrapers :
        /\ pc[t] = "collect_spawn"
        /\ \E k \in Running(t) : gor[t][k].c \notin Range(collectors)
        /\ \E i \in 1..Len(collectors) : collectors[i] \notin Range(snap[t])

\* ------------------------------------------------------------------------
\* Properties of the ProfileCollector's watermark
\* ------------------------------------------------------------------------

\* C28 - lastCheck moves only at the end of a cycle whose listing
\* succeeded, and then to the clock reading of that cycle; a cycle that is
\* suppressed or whose listing fails leaves lastCheck and the windows as
\* they were, so the window of the next cycle that reaches the loop starts
\* at the unchanged lastCheck.
C28_WatermarkOnlyAfterListing ==
    [][ /\ lastCheck' # lastCheck =>
              /\ ProfileCycleRan'
              /\ lastCheck' = clock
              /\ Len(windows') = Len(windows) + 1
        /\ ( (last' # last \/ windows' # windows)
             /\ last'.op = "Collect"
             /\ last'.name = "profile"
             /\ (~isMetricEnabled(config', "profile")
                    \/ Failed(last'.arg, "listDatabases")) ) =>
              /\ lastCheck' = lastCheck
              /\ windows' = windows
        /\ Len(windows') > Len(windows) =>
              windows'[Len(windows')].since = lastCheck
      ]_vars

\* After a cycle that read a window, a later cycle's listing failed at a
\* later clock reading, and lastCheck still is the end of that window.
C28_Witness ==
    /\ last.op = "Collect"
    /\ last.name = "profile"
    /\ isMetricEnabled(config, "profile")
    /\ Failed(last.arg, "listDatabases")
    /\ windows # << >>
    /\ lastCheck = windows[Len(windows)].until
    /\ lastCheck < clock

\* C29 - No profiled operation is lost to a failed query: after a cycle
\* in which a database's status query or system.profile query failed, the
\* watermark has not moved past the start of that cycle's window (unless
\* the window holds no instant), so a later cycle queries those instants
\* again.
C29_NoEntryLostToFailure ==
    LET \* The positions of the user databases for which the cycle's status query
        \* or its query of system.profile failed.
        FailedDbs(env) ==
            { n \in 1..Len(ListedDatabases) :
                  /\ ~shouldSkipDatabase(ListedDatabases[n])
                  /\ env.db[ListedDatabases[n]] \in
                         { "status_fails", "find_fails" } }
    IN  (ProfileCycleRan /\ FailedDbs(last.arg) # {}) =>
            LET window == windows[Len(windows)]
            IN  window.since < window.until => lastCheck <= window.since

\* ------------------------------------------------------------------------
\* CollectorManager.InitializeCollectors and the registry it installs
\* ------------------------------------------------------------------------

\* How many entries of list were added by hand: those that are not
\* built-in collectors.
Added(list) == Cardinality({ i \in 1..Len(list) : list[i] \notin Builtin })

\* NewCollectorManager: cm.multiCollector is an empty NewMultiCollector.
InitManager ==
    LET \* The configurations a manager is built with: everything enabled, an
        \* allow-list, a deny-list.
        ManagerConfigs ==
            { DefaultConfig,
              [ EnabledMetrics |-> << "server_status" >>, DisabledMetrics |-> << >> ],
              [ EnabledMetrics |-> << >>, DisabledMetrics |-> << "profile" >> ],
              [ EnabledMetrics |-> << "collstats" >>,
                DisabledMetrics |-> << "sharding" >> ] }
    IN  /\ collectors = << >>
        /\ mu = NoTask
        /\ cancelled = FALSE
        /\ crashed = FALSE
        /\ config \in ManagerConfigs
        /\ last = NoCall
        /\ ProfInit
        /\ retired = << >>
        /\ TaskInit

\* AddCollector(c) on the object cm.GetCollector() returns now.
ManagerAdd(c) ==
    /\ Added(collectors) < MaxCollectors
    /\ collectors' = Append(collectors, c)
    /\ last' = Call("AddCollector", c, TRUE, 0, 0)
    /\ UNCHANGED << mu, cancelled, crashed, pc, arg, callVars, chLen,
                    descVars, config, profVars, retired >>

\* AddCollector(c) on an object that cm.GetCollector() returned before the
\* manager replaced it.
StaleAdd(i, c) ==
    /\ i \in 1..Len(retired)
    /\ Added(retired[i]) < MaxCollectors
    /\ retired' = [retired EXCEPT ![i] = Append(@, c)]
    /\ UNCHANGED << regVars, pc, arg, callVars, chLen, descVars, config,
                    profVars, last >>

\* Variant: the built-in collectors are appended to the present registry.
CmInitializeCollectors_Append ==
    /\ Len(retired) < MaxInits
    /\ collectors' = collectors \o InitializeCollectors
    /\ retired' = Append(retired, << >>)
    /\ last' = Call("InitializeCollectors", "none", TRUE, 0, 0)
    /\ UNCHANGED << mu, cancelled, crashed, pc, arg, callVars, chLen,
                    descVars, config, profVars >>

\* (cm *CollectorManager) InitializeCollectors: builds the list of
\* built-in collectors without reading the configuration (no constructor
\* returns nil), points cm.multiCollector at a new MultiCollector holding
\* that list and returns nil.  The object it pointed at before stays with
\* whoever holds it.
CmInitializeCollectors ==
    /\ Len(retired) < MaxInits
    /\ collectors' = InitializeCollectors
    /\ retired' = Append(retired, collectors)
    /\ last' = Call("InitializeCollectors", "none", TRUE, 0, 0)
    /\ UNCHANGED << mu, cancelled, crashed, pc, arg, callVars, chLen,
                    descVars, config, profVars >>

NextManager ==
    \/ \E c \in {"c1"} : ManagerAdd(c)
    \/ \E i \in 1..MaxInits, c \in {"c1"} : StaleAdd(i, c)
    \/ CmInitializeCollectors

SpecManager == InitManager /\ [][NextManager]_vars

\* C30 - While InitializeCollectors is the last call made on the manager
\* or on the registry it hands out, the list of the MultiCollector that
\* GetCollector returns (cm.multiCollector, here collectors) is the list of
\* the 13 built-in collectors, each once, under every configuration,
\* whatever the registry held before and however often InitializeCollectors
\* has run; what is added to a registry handed out earlier stays in that
\* registry.
C30_InitializeInstallsBuiltins ==
    last.op = "InitializeCollectors" =>
        /\ collectors = InitializeCollectors
        /\ Len(collectors) = 13
        /\ \A i, j \in 1..Len(collectors) :
              collectors[i] = collectors[j] => i = j
        /\ Added(collectors) = 0

\* InitializeCollectors has run twice, the second time on a registry that
\* held a collector added by hand, and a collector was added to the first
\* registry after it had been replaced.
C30_Witness ==
    /\ last.op = "InitializeCollectors"
    /\ Len(retired) = 2
    /\ Added(retired[1]) > 0
    /\ Len(retired[2]) > 13

\* ------------------------------------------------------------------------
\* StorageStatsCollector.Collect and CollStatsCollector.Collect
\* ------------------------------------------------------------------------

\* Collection names are strings of characters, so that a prefix and a
\* length can be taken: system.profile, users, orders.
SystemPrefix == << "s", "y", "s", "t", "e", "m", "." >>

\* What ListCollectionNames can return, in the order it returns it; a
\* database lists any of these (user collections cannot be created under
\* the reserved prefix, the server's own system.* collections are listed).
CollectionNames ==
    << SystemPrefix \o << "p", "r", "o", "f", "i", "l", "e" >>,
       << "u", "s", "e", "r", "s" >>,
       << "o", "r", "d", "e", "r", "s" >> >>

\* What ListDatabaseNames returns.
StatsDatabases == << "admin", "app", "config", "local", "shop" >>

\* shouldSkipCollection: len(collName) > 7 && collName[:7] == "system."
shouldSkipCollection(collName) ==
    Len(collName) > Len(SystemPrefix)
        /\ SubSeq(collName, 1, Len(SystemPrefix)) = SystemPrefix

\* dbName + "." + collName, and the wildcard entry "*".
FullName(dbName, collName) == << dbName, "." >> \o collName
Wildcard == << "*" >>

\* One upstream request of these collectors: the command, the database
\* it goes to and, for collStats, the collection.
SQ(name, dbName, collName) ==
    [ e |-> "query", q |-> name, db |-> dbName, coll |-> collName ]

\* The collections every database lists under env.
Listing(env) == SelectSeq(CollectionNames, LAMBDA c : c \in env.colls)

\* One collStats request per collection of list; a failed collStats is
\* logged and the loop goes on.
CollStatsRequests(dbName, list) ==
    [ i \in 1..Len(list) |-> SQ("collStats", dbName, list[i]) ]

\* StorageStatsCollector.Collect: the gate, the listing, and the loop
\* that leaves out admin, local and config.
storageStatsCollect(cfg, env) ==
    LET \* The body of StorageStatsCollector.Collect's loop for one database:
        \* dbStats, ListCollectionNames, then collStats for every listed
        \* collection; a failed dbStats or listing moves on to the next database.
        storageStatsDatabase(log, dbName) ==
            IF Failed(env, "dbStats")
            THEN Append(log, SQ("dbStats", dbName, << >>))
            ELSE IF Failed(env, "listCollections")
            THEN log \o << SQ("dbStats", dbName, << >>),
                           SQ("listCollections", dbName, << >>) >>
            ELSE log \o << SQ("dbStats", dbName, << >>),
                           SQ("listCollections", dbName, << >>) >>
                     \o CollStatsRequests(dbName, Listing(env))
        loop[n \in 0..Len(StatsDatabases)] ==
            IF n = 0 THEN << SQ("listDatabases", "", << >>) >>
            ELSE IF StatsDatabases[n] \in {"admin", "local", "config"}
            THEN loop[n - 1]
            ELSE storageStatsDatabase(loop[n - 1], StatsDatabases[n])
    IN  IF ~isMetricEnabled(cfg, "storage_stats") THEN << >>
        ELSE IF Failed(env, "listDatabases")
        THEN << SQ("listDatabases", "", << >>) >>
        ELSE loop[Len(StatsDatabases)]

\* NewCollStatsCollector: the monitoredCollections the collector is built
\* with, from the configuration's lists and its monitored_collections
\* entry (configured, already decoded to strings).
NewCollStatsCollector(cfg, configured) ==
    IF /\ Len(cfg.EnabledMetrics) > 0
       /\ \E i \in 1..Len(cfg.EnabledMetrics) :
             cfg.EnabledMetrics[i] \in {"collstats", "collection_stats"}
    THEN IF Len(configured) > 0 THEN configured ELSE << Wildcard >>
    ELSE << >>

\* CollStatsCollector.shouldMonitorCollection
shouldMonitorCollection(monitoredCollections, dbName, collName) ==
    \/ Len(monitoredCollections) = 0
    \/ \E i \in 1..Len(monitoredCollections) :
          \/ monitoredCollections[i] = FullName(dbName, collName)
          \/ monitoredCollections[i] = Wildcard

\* CollStatsCollector.collectDatabaseCollectionStats
collectDatabaseCollectionStats(log, env, dbName, monitoredCollections) ==
    IF Failed(env, "listCollections")
    THEN Append(log, SQ("listCollections", dbName, << >>))
    ELSE Append(log, SQ("listCollections", dbName, << >>))
             \o CollStatsRequests(dbName,
                    SelectSeq(Listing(env),
                        LAMBDA c : /\ ~shouldSkipCollection(c)
                                   /\ shouldMonitorCollection(
                                          monitoredCollections, dbName, c)))

\* CollStatsCollector.Collect: the gate on both of its names, the
\* listing, and the loop over the databases that are not skipped.
collStatsCollect(cfg, env, monitoredCollections) ==
    LET loop[n \in 0..Len(StatsDatabases)] ==
            IF n = 0 THEN << SQ("listDatabases", "", << >>) >>
            ELSE IF shouldSkipDatabase(StatsDatabases[n]) THEN loop[n - 1]
            ELSE collectDatabaseCollectionStats(
                     loop[n - 1], env, StatsDatabases[n],
                     monitoredCollections)
    IN  IF /\ ~isMetricEnabled(cfg, "collstats")
           /\ ~isMetricEnabled(cfg, "collection_stats")
        THEN << >>
        ELSE IF Failed(env, "listDatabases")
        THEN << SQ("listDatabases", "", << >>) >>
        ELSE loop[Len(StatsDatabases)]

\* The built-in collectors are installed and one of the two is about to
\* be called.
InitStats ==
    LET \* The upstream failures and listings of one call.
        StorageEnvs ==
            [ fail : SUBSET {"listDatabases", "dbStats", "listCollections"},
              colls : SUBSET Range(CollectionNames) ]
        CollStatsEnvs ==
            LET \* The same for the CollStatsCollector, with the monitored_collections
                \* entry of its configuration.
                MonitoredEntries ==
                    { FullName("app", CollectionNames[2]),
                      FullName("shop", CollectionNames[3]), Wildcard }
            IN  [ fail : SUBSET {"listDatabases", "listCollections"},
                  colls : SUBSET Range(CollectionNames),
                  monitored : SeqUpTo(MonitoredEntries, MaxListLen) ]
        \* The configurations of these calls: everything enabled, an allow-list
        \* naming the collector by either of its names or not at all, a deny-list.
        StatsConfigs ==
            { DefaultConfig,
              [ EnabledMetrics |-> << "collstats" >>, DisabledMetrics |-> << >> ],
              [ EnabledMetrics |-> << "collection_stats" >>,
                DisabledMetrics |-> << >> ],
              [ EnabledMetrics |-> << "storage_stats" >>, DisabledMetrics |-> << >> ],
              [ EnabledMetrics |-> << >>, DisabledMetrics |-> << "storage_stats" >> ] }
    IN  /\ collectors = InitializeCollectors
        /\ mu = NoTask
        /\ cancelled = FALSE
        /\ crashed = FALSE
        /\ config \in StatsConfigs
        /\ \/ last \in { Pending("storage_stats", env) : env \in StorageEnvs }
           \/ last \in { Pending("collstats", env) : env \in CollStatsEnvs }
        /\ ProfInit
        /\ retired = << >>
        /\ TaskInit

StorageStatsCollect ==
    /\ IsPending("storage_stats")
    /\ last' = CCall("storage_stats", last.arg,
                     storageStatsCollect(config, last.arg))
    /\ UNCHANGED helperFrame

CollStatsCollect ==
    /\ IsPending("collstats")
    /\ last' = CCall("collstats", last.arg,
                     collStatsCollect(config, last.arg,
                         NewCollStatsCollector(config, last.arg.monitored)))
    /\ UNCHANGED helperFrame

NextStats ==
    \/ StorageStatsCollect
    \/ CollStatsCollect

SpecStats == InitStats /\ [][NextStats]_vars

\* ------------------------------------------------------------------------
\* Properties of the statistics collectors' filters
\* ------------------------------------------------------------------------

\* A name that starts with the reserved prefix.
HasSystemPrefix(collName) ==
    Len(collName) >= Len(SystemPrefix)
        /\ SubSeq(collName, 1, Len(SystemPrefix)) = SystemPrefix

\* C25 - System namespaces are left alone: no request of a
\* StorageStatsCollector or CollStatsCollector cycle goes to the admin,
\* config or local database, and no collStats request names a collection
\* under the reserved prefix "system.".
C25_SystemNamespacesSkipped ==
    (last.op = "Collect" /\ last.name \in {"storage_stats", "collstats"}) =>
        \A i \in 1..Len(last.log) :
            /\ last.log[i].db \notin {"admin", "config", "local"}
            /\ ~HasSystemPrefix(last.log[i].coll)

\* C26 - Collection allow-list: a CollStatsCollector cycle that passed its
\* gate and whose listings succeeded asks collStats for exactly the
\* non-system collections named "database.collection" in
\* monitored_collections when that list is non-empty and has no "*", and
\* for all non-system collections when it is empty or has "*".
C26_MonitoredCollections ==
    LET \* The (database, collection) pairs a cycle asked collStats for.
        StatsRequested(log) ==
            { << log[i].db, log[i].coll >> :
                  i \in { j \in 1..Len(log) : log[j].q = "collStats" } }
        \* The pairs of user databases and listed collections outside the
        \* reserved prefix.
        NonSystem(env) ==
            { << StatsDatabases[n], c >> :
                  n \in { i \in 1..Len(StatsDatabases) :
                             ~shouldSkipDatabase(StatsDatabases[i]) },
                  c \in { d \in env.colls : ~HasSystemPrefix(d) } }
    IN  ( /\ last.op = "Collect"
          /\ last.name = "collstats"
          /\ isMetricEnabled(config, "collstats")
                \/ isMetricEnabled(config, "collection_stats")
          /\ last.arg.fail = {} ) =>
            LET listed == Range(last.arg.monitored)
            IN  StatsRequested(last.log) =
                  IF listed # {} /\ Wildcard \notin listed
                  THEN { p \in NonSystem(last.arg) :
                            FullName(p[1], p[2]) \in listed }
                  ELSE NonSystem(last.arg)

====
